---- MODULE Spec2Model ----
(***************************************************************************)
(* A model of github.com/eatmoreapple/hx: the router (New, Group, Use,     *)
(* Handle and the dispatch of a request through the middleware chain to    *)
(* the error callback) and the request binder (binding.Default, mapTo,     *)
(* GenericBinder, ShouldBind and the typed handler adapters).              *)
(*                                                                         *)
(* Go slices are modelled as they are in Go: a slice value is a window     *)
(* (array, len, cap) on a backing array of the heap `arrays`, and append   *)
(* writes in place while the capacity allows.                              *)
(***************************************************************************)
EXTENDS Integers, Sequences, FiniteSets, TLC

VARIABLES
    arrays,    \* the heap: backing arrays of the []Middleware slices
    routers,   \* the *Router values created so far (index = pointer)
    routes,    \* the patterns registered with mux.HandleFunc, with closures
    hist,      \* history: per router, its parent, the list it inherited, what Use gave it
    last,      \* the most recent router operation and what it produced
    call,      \* the most recent binding operation and what it produced
    implCache, \* implementsRequestExtractorTypeMap: type -> implements RequestExtractor
    stdJSONSerializer, \* the process-wide JSON serializer, an interface value
    goroutines \* the goroutines running concurrently, each with its position

vars == <<arrays, routers, routes, hist, last, call, implCache, stdJSONSerializer, goroutines>>

\* A Go interface value is two words: the type it holds and the pointer to
\* the data.  The nil interface has neither.
Iface(s) == [tab |-> s, data |-> s]
NilIface == [tab |-> "nil", data |-> "nil"]

\* &StdJSONSerializer{}
StdJSONSerializer == "StdJSONSerializer"

\* An error value is the chain of messages it wraps, outermost first; nil is
\* the empty chain.
NoErr == <<>>

\* errors.Is(err, target)
ErrorsIs(err, target) == target \in {err[i] : i \in DOMAIN err}

Range(s) == {s[i] : i \in DOMAIN s}

\* ------------------------------------------------------------------ bounds

\* The router tree (specification SpecRouter).
MaxRouters == 3
MaxRoutes == 1
MaxArgs == 1
MaxOwn == 5
MaxOpts == 2
\* The dispatch of requests (specification SpecServe).
ServeRouters == 2
ServeRoutes == 1
ServeArgs == 1
ServeOwn == 2

\* ------------------------------------------------------------- Go slices

NilSlice == [arr |-> 0, len |-> 0, cap |-> 0]

\* The elements a slice value shows: backing[0:len].
SliceElems(heap, s) == IF s.len = 0 THEN <<>> ELSE SubSeq(heap[s.arr], 1, s.len)

\* The Go runtime rounds a new capacity up to an allocation size class; for
\* 8-byte elements the classes are 1, 2, 3, 4, 6, 8 elements.
RoundUpCap(n) == IF n <= 4 THEN n ELSE IF n <= 6 THEN 6 ELSE IF n <= 8 THEN 8 ELSE n

\* growslice: the needed length when it exceeds twice the old capacity,
\* otherwise twice the old capacity (small slices).
GrowCap(oldcap, needed) ==
    RoundUpCap(IF needed > 2 * oldcap THEN needed ELSE 2 * oldcap)

Pad(xs, n) == [i \in 1..n |-> IF i <= Len(xs) THEN xs[i] ELSE "nil"]

\* append(s, xs...): in place when the capacity allows, else a new backing
\* array holding a copy.  Yields the new heap and the new slice value.
GoAppend(heap, s, xs) ==
    IF Len(xs) = 0 THEN [heap |-> heap, slice |-> s]
    ELSE IF s.len + Len(xs) <= s.cap
    THEN [heap  |-> [heap EXCEPT ![s.arr] =
                        [i \in 1..s.cap |->
                            IF i > s.len /\ i <= s.len + Len(xs)
                            THEN xs[i - s.len] ELSE @[i]]],
          slice |-> [s EXCEPT !.len = s.len + Len(xs)]]
    ELSE LET newcap == GrowCap(s.cap, s.len + Len(xs))
             elems  == SliceElems(heap, s) \o xs
         IN [heap  |-> Append(heap, Pad(elems, newcap)),
             slice |-> [arr |-> Len(heap) + 1, len |-> Len(elems), cap |-> newcap]]

\* ------------------------------------------------------------------ paths
\* A path is a sequence of characters over {"/", letters}.

Slash == "/"

HasPrefixSlash(p) == Len(p) > 0 /\ p[1] = Slash
HasSuffixSlash(p) == Len(p) > 0 /\ p[Len(p)] = Slash

\* joinPath joins two path segments.
joinPath(a, b) ==
    LET aslash == HasSuffixSlash(a)
        bslash == HasPrefixSlash(b)
    IN  IF aslash /\ bslash THEN a \o Tail(b)
        ELSE IF ~aslash /\ ~bslash THEN a \o <<Slash>> \o b
        ELSE a \o b

RECURSIVE CollapseSlashes(_)
CollapseSlashes(p) ==
    IF Len(p) <= 1 THEN p
    ELSE IF p[1] = Slash /\ p[2] = Slash THEN CollapseSlashes(Tail(p))
    ELSE <<p[1]>> \o CollapseSlashes(Tail(p))

\* path.Clean on a path without dot elements: repeated slashes collapse and a
\* trailing slash goes, except for the root.
PathClean(p) ==
    LET c == CollapseSlashes(p)
    IN  IF c = <<>> THEN <<".">>
        ELSE IF Len(c) > 1 /\ HasSuffixSlash(c) THEN SubSeq(c, 1, Len(c) - 1)
        ELSE c

\* path.Join(a, b): the non-empty elements joined by a slash, then cleaned.
PathJoin(a, b) ==
    IF a = <<>> /\ b = <<>> THEN <<>>
    ELSE IF a = <<>> THEN PathClean(b)
    ELSE IF b = <<>> THEN PathClean(a)
    ELSE PathClean(a \o <<Slash>> \o b)

\* ------------------------------------------------------------- middleware
\* A HandlerFunc value is the business handler `base` with the middleware
\* closures wrapped around it, outermost first.

Middlewares == {"m1", "m2"}
Handlers == {"h1"}
Callbacks == {"custom1", "custom2"}
DefaultErrHandler == "default"

PlainHandler(h) == [wraps |-> <<>>, base |-> h]

\* middlewares[i](next): the closure of middleware m around next.
Wrap(m, next) == [next EXCEPT !.wraps = <<m>> \o @]

RECURSIVE ChainLoop(_, _, _)
ChainLoop(middlewares, i, next) ==
    IF i < 1 THEN next
    ELSE ChainLoop(middlewares, i - 1, Wrap(middlewares[i], next))

RECURSIVE ChainLoopUp(_, _, _)
ChainLoopUp(middlewares, i, next) ==
    IF i > Len(middlewares) THEN next
    ELSE ChainLoopUp(middlewares, i + 1, Wrap(middlewares[i], next))

\* Mutant: the loop runs from the first middleware to the last.
ChainForward(middlewares, next) == ChainLoopUp(middlewares, 1, next)

\* Chain(middlewares...)(next): for i := len-1; i >= 0; i-- { next = middlewares[i](next) }
Chain(middlewares, next) == ChainLoop(middlewares, Len(middlewares), next)

\* What a middleware does with a request is the application's: it either
\* returns next(w, r) ("pass"), returns without calling next ("stopErr",
\* "stopNil"), or calls next and drops its error ("swallow").
Behaviours == {"pass", "stopErr", "stopNil", "swallow"}

MwErr(m) == <<"err_" \o m>>

\* An http.ResponseWriter: the names of the headers set, the Content-Type the
\* response goes out with, the status, the body, and the calls made on it.
NewRecorder == [header |-> {}, contentType |-> "", status |-> 0, body |-> <<>>, log |-> <<>>]

\* w.Header().Set(key, value): a header set after the status went out is
\* not part of the response.
SetHeader(w, key, value) ==
    [w EXCEPT !.header = @ \cup {key},
              !.contentType = IF key = "Content-Type" /\ w.status = 0 THEN value ELSE @,
              !.log = Append(@, "Header.Set")]

\* w.WriteHeader(code): the first call counts.
WriteHeader(w, code) ==
    IF w.status = 0 THEN [w EXCEPT !.status = code, !.log = Append(@, "WriteHeader")] ELSE w

\* w.Write(text): the status goes out as 200 if none did.
Write(w, text) ==
    [WriteHeader(w, 200) EXCEPT !.body = Append(@, text), !.log = Append(@, "Write")]

\* Running a HandlerFunc value: the closures entered, in order, the error
\* returned to the caller and the response written.
RECURSIVE Exec(_, _, _, _)
Exec(h, beh, ret, w) ==
    IF h.wraps = <<>>
    THEN [trace |-> <<h.base>>, err |-> ret,
          w |-> IF ret = NoErr THEN Write(w, h.base) ELSE w]
    ELSE LET m    == Head(h.wraps)
             w1   == [w EXCEPT !.header = @ \cup {m}]
             next == [h EXCEPT !.wraps = Tail(@)]
         IN  IF beh[m] = "stopErr" THEN [trace |-> <<m>>, err |-> MwErr(m), w |-> w1]
             ELSE IF beh[m] = "stopNil" THEN [trace |-> <<m>>, err |-> NoErr, w |-> w1]
             ELSE LET r == Exec(next, beh, ret, w1)
                  IN  [trace |-> <<m>> \o r.trace,
                       err   |-> IF beh[m] = "swallow" THEN NoErr ELSE r.err,
                       w     |-> r.w]

\* An ErrorHandler: the default one is http.Error(w, err.Error(), 500); a
\* custom one writes its own status and body.
CallErrHandler(cb, w, err) ==
    IF cb = DefaultErrHandler
    THEN [WriteHeader(SetHeader(w, "Content-Type", "text/plain; charset=utf-8"), 500)
            EXCEPT !.body = Append(@, err)]
    ELSE [WriteHeader(w, 418) EXCEPT !.body = Append(@, cb)]

\* Mutant: the error callback is called whatever the handler returned.
ServeRouteAlways(res, cb) ==
    [res EXCEPT !.w = CallErrHandler(cb, res.w, res.err)]
        @@ [errCalls |-> <<[cb |-> cb, err |-> res.err]>>]

\* The closure Handle registers with the mux:
\*   if err := handler(w, req); err != nil { r.ErrHandler(w, req, err) }
ServeRoute(res, cb) ==
    IF res.err # NoErr
    THEN [res EXCEPT !.w = CallErrHandler(cb, res.w, res.err)]
            @@ [errCalls |-> <<[cb |-> cb, err |-> res.err]>>]
    ELSE res @@ [errCalls |-> <<>>]

\* ----------------------------------------------------------------- router

RootPath == <<Slash>>

\* The inputs of the router operations.
Prefixes == {<<"a", "/">>}
Paths == {<<"/", "x">>, <<"x">>}
Methods == {"GET"}
Errors == {<<"oops">>}

SeqsUpTo(S, n) == UNION {[1..k -> S] : k \in 0..n}

\* RouterOption values: WithErrorHandler(cb) and WithMiddleware(ms...).
WithErrorHandler(cb) == [kind |-> "errh", cb |-> cb, ms |-> <<>>]
WithMiddleware(ms) == [kind |-> "mw", cb |-> "", ms |-> ms]

\* One option applied to the router under construction.
ApplyOption(st, opt) ==
    IF opt.kind = "errh"
    THEN [st EXCEPT !.r.ErrHandler = opt.cb]
    ELSE LET a == GoAppend(st.heap, st.r.middleware, opt.ms)
         IN  [heap |-> a.heap, r |-> [st.r EXCEPT !.middleware = a.slice]]

RECURSIVE ApplyOptions(_, _)
ApplyOptions(st, opts) ==
    IF opts = <<>> THEN st
    ELSE ApplyOptions(ApplyOption(st, Head(opts)), Tail(opts))

\* New(options...): a router on a mux of its own, base path "/", the default
\* error handler, then the options in order.
NewRouter(heap, mux, opts) ==
    ApplyOptions([heap |-> heap,
                  r    |-> [ErrHandler |-> DefaultErrHandler, mux |-> mux,
                            basePath |-> RootPath, middleware |-> NilSlice]],
                 opts)

\* Mutant: the group takes the parent's slice value itself (middleware: r.middleware).
GroupShared(heap, r, prefix) ==
    [heap |-> heap,
     r    |-> [ErrHandler |-> r.ErrHandler, mux |-> r.mux,
               basePath |-> PathJoin(r.basePath, prefix),
               middleware |-> r.middleware]]

\* Mutant: the group starts with no middleware.
GroupNoInherit(heap, r, prefix) ==
    [heap |-> heap,
     r    |-> [ErrHandler |-> r.ErrHandler, mux |-> r.mux,
               basePath |-> PathJoin(r.basePath, prefix),
               middleware |-> NilSlice]]

\* r.Group(prefix): the same mux, the joined base path, the parent's error
\* handler and append([]Middleware{}, r.middleware...).
GroupRouter(heap, r, prefix) ==
    LET a == GoAppend(heap, NilSlice, SliceElems(heap, r.middleware))
    IN  [heap |-> a.heap,
         r    |-> [ErrHandler |-> r.ErrHandler, mux |-> r.mux,
                   basePath |-> PathJoin(r.basePath, prefix),
                   middleware |-> a.slice]]

\* r.Use(middleware...): r.middleware = append(r.middleware, middleware...)
UseRouter(heap, r, ms) ==
    LET a == GoAppend(heap, r.middleware, ms)
    IN  [heap |-> a.heap, r |-> [r EXCEPT !.middleware = a.slice]]

\* The pattern and the handler Handle registers for (method, path, handler).
HandlePattern(r, method, path) ==
    LET p == IF HasPrefixSlash(path) THEN path ELSE <<Slash>> \o path
    IN  <<method, joinPath(r.basePath, p)>>

HandleWrapped(heap, r, handler) ==
    IF r.middleware.len > 0
    THEN Chain(SliceElems(heap, r.middleware), handler)
    ELSE handler

\* History only: what the options of New passed, in order.
RECURSIVE OptionMiddleware(_)
OptionMiddleware(opts) ==
    IF opts = <<>> THEN <<>>
    ELSE Head(opts).ms \o OptionMiddleware(Tail(opts))

RECURSIVE OptionCallbacks(_)
OptionCallbacks(opts) ==
    IF opts = <<>> THEN <<>>
    ELSE (IF Head(opts).kind = "errh" THEN <<Head(opts).cb>> ELSE <<>>)
            \o OptionCallbacks(Tail(opts))

\* History only: how many middleware Use and WithMiddleware were given so far.
RECURSIVE TotalOwn(_)
TotalOwn(n) == IF n = 0 THEN 0 ELSE Len(hist[n].own) + TotalOwn(n - 1)

Idle == [op |-> "none"]
NoCall == [op |-> "none"]

\* The middleware list router i shows now.
MwList(i) == SliceElems(arrays, routers[i].middleware)

\* One router tree per program run: New is the first operation.
New(opts, maxOwn) ==
    /\ routers = <<>>
    /\ Len(OptionMiddleware(opts)) <= maxOwn
    /\ LET st == NewRouter(arrays, 1, opts)
       IN  /\ arrays' = st.heap
           /\ routers' = Append(routers, st.r)
           /\ hist' = Append(hist, [parent |-> 0, inherited |-> <<>>,
                                    own |-> OptionMiddleware(opts),
                                    cbs |-> OptionCallbacks(opts)])
    /\ last' = Idle
    /\ UNCHANGED <<routes, call, implCache, stdJSONSerializer, goroutines>>

Group(p, prefix, maxRouters) ==
    /\ Len(routers) < maxRouters
    /\ LET st == GroupRouter(arrays, routers[p], prefix)
       IN  /\ arrays' = st.heap
           /\ routers' = Append(routers, st.r)
           /\ hist' = Append(hist, [parent |-> p, inherited |-> MwList(p),
                                    own |-> <<>>, cbs |-> <<>>])
    /\ last' = Idle
    /\ UNCHANGED <<routes, call, implCache, stdJSONSerializer, goroutines>>

Use(i, ms, maxOwn) ==
    /\ TotalOwn(Len(hist)) + Len(ms) <= maxOwn
    /\ LET st == UseRouter(arrays, routers[i], ms)
       IN  /\ arrays' = st.heap
           /\ routers' = [routers EXCEPT ![i] = st.r]
    /\ hist' = [hist EXCEPT ![i].own = @ \o ms]
    /\ last' = Idle
    /\ UNCHANGED <<routes, call, implCache, stdJSONSerializer, goroutines>>

\* r.Handle(method, path, Chain(pre...)(h)).  mux.HandleFunc panics when the pattern is registered already.
Handle(i, method, path, pre, h, maxRoutes) ==
    LET pattern  == HandlePattern(routers[i], method, path)
        given    == Chain(pre, PlainHandler(h))
        handler  == HandleWrapped(arrays, routers[i], given)
        conflict == \E k \in DOMAIN routes :
                       /\ routes[k].mux = routers[i].mux
                       /\ routes[k].pattern = pattern
    IN  /\ conflict \/ Len(routes) < maxRoutes
        /\ IF conflict
           THEN /\ last' = [op |-> "panic"]
                /\ UNCHANGED routes
           ELSE /\ routes' = Append(routes, [mux |-> routers[i].mux, pattern |-> pattern,
                                             router |-> i, handler |-> handler,
                                             pre |-> pre, base |-> h,
                                             ownLen |-> Len(hist[i].own),
                                             errAt |-> routers[i].ErrHandler])
                /\ last' = Idle
        /\ UNCHANGED <<arrays, routers, hist, call, implCache, stdJSONSerializer, goroutines>>

\* Mutant: the closure calls the callback the router had at the registration.
DispatchCaptured(k, beh, ret) ==
    /\ LET rt  == routes[k]
           res == ServeRoute(Exec(rt.handler, beh, ret, NewRecorder), rt.errAt)
       IN  last' = [op |-> "Dispatch", route |-> k,
                    behs |-> [j \in DOMAIN rt.handler.wraps |-> beh[rt.handler.wraps[j]]],
                    ret |-> ret, trace |-> res.trace, err |-> res.err,
                    errCalls |-> res.errCalls, w |-> res.w]
    /\ UNCHANGED <<arrays, routers, routes, hist, call, implCache, stdJSONSerializer, goroutines>>

\* Mutant: the chain is composed from the router's list when the request
\* arrives.
DispatchLate(k, beh, ret) ==
    /\ LET rt  == routes[k]
           h   == Chain(MwList(rt.router) \o rt.pre, PlainHandler(rt.base))
           res == ServeRoute(Exec(h, beh, ret, NewRecorder),
                             routers[rt.router].ErrHandler)
       IN  last' = [op |-> "Dispatch", route |-> k,
                    behs |-> [j \in DOMAIN h.wraps |-> beh[h.wraps[j]]],
                    ret |-> ret, trace |-> res.trace, err |-> res.err,
                    errCalls |-> res.errCalls, w |-> res.w]
    /\ UNCHANGED <<arrays, routers, routes, hist, call, implCache, stdJSONSerializer, goroutines>>

\* A request the mux matches to route k: the registered closure runs.
Dispatch(k, beh, ret) ==
    /\ LET rt  == routes[k]
           res == ServeRoute(Exec(rt.handler, beh, ret, NewRecorder),
                             routers[rt.router].ErrHandler)
       IN  last' = [op |-> "Dispatch", route |-> k,
                    behs |-> [j \in DOMAIN rt.handler.wraps |-> beh[rt.handler.wraps[j]]],
                    ret |-> ret, trace |-> res.trace, err |-> res.err,
                    errCalls |-> res.errCalls, w |-> res.w]
    /\ UNCHANGED <<arrays, routers, routes, hist, call, implCache, stdJSONSerializer, goroutines>>

InitRouter ==
    /\ arrays = <<>>
    /\ routers = <<>>
    /\ routes = <<>>
    /\ hist = <<>>
    /\ last = Idle
    /\ call = NoCall
    /\ implCache = {}
    /\ stdJSONSerializer = Iface(StdJSONSerializer) /\ goroutines = <<>>

MwOptions(n) == {WithMiddleware(ms) : ms \in SeqsUpTo(Middlewares, n)}
AllOptions(n) == {WithErrorHandler(cb) : cb \in Callbacks} \cup MwOptions(n)

\* The router tree: construction, groups, Use and registration.
NextRouter ==
    \/ \E opts \in SeqsUpTo(MwOptions(MaxArgs), MaxOpts) : New(opts, MaxOwn)
    \/ \E p \in DOMAIN routers, prefix \in Prefixes : Group(p, prefix, MaxRouters)
    \/ \E i \in DOMAIN routers, ms \in SeqsUpTo(Middlewares, MaxArgs) : Use(i, ms, MaxOwn)
    \/ \E i \in DOMAIN routers, m \in Methods, p \in Paths, h \in Handlers :
          Handle(i, m, p, <<>>, h, MaxRoutes)

SpecRouter == InitRouter /\ [][NextRouter]_vars

\* Requests served by the registered routes.
NextServe ==
    \/ \E opts \in SeqsUpTo(AllOptions(ServeArgs), MaxOpts) : New(opts, ServeOwn)
    \/ \E p \in DOMAIN routers, prefix \in Prefixes : Group(p, prefix, ServeRouters)
    \/ \E i \in DOMAIN routers, ms \in SeqsUpTo(Middlewares, ServeArgs) : Use(i, ms, ServeOwn)
    \/ \E i \in DOMAIN routers, m \in Methods, p \in Paths, h \in Handlers,
          pre \in SeqsUpTo(Middlewares, ServeArgs) : Handle(i, m, p, pre, h, ServeRoutes)
    \/ \E k \in DOMAIN routes, beh \in [Middlewares -> Behaviours],
          ret \in Errors \cup {NoErr} : Dispatch(k, beh, ret)

SpecServe == InitRouter /\ [][NextServe]_vars

\* r.ErrHandler = cb: the field is exported, the application may assign it at
\* any time.
SetErrHandler(i, cb) ==
    /\ routers' = [routers EXCEPT ![i].ErrHandler = cb]
    /\ last' = [op |-> "assign", router |-> i]
    /\ UNCHANGED <<arrays, routes, hist, call, implCache, stdJSONSerializer, goroutines>>

\* Requests served while the application assigns error callbacks.
NextAssign ==
    \/ \E opts \in SeqsUpTo(AllOptions(ServeArgs), MaxOpts) : New(opts, ServeOwn)
    \/ \E p \in DOMAIN routers, prefix \in Prefixes : Group(p, prefix, ServeRouters)
    \/ \E i \in DOMAIN routers, m \in Methods, p \in Paths, h \in Handlers :
          Handle(i, m, p, <<>>, h, ServeRoutes)
    \/ \E i \in DOMAIN routers, cb \in Callbacks \cup {DefaultErrHandler} :
          SetErrHandler(i, cb)
    \/ \E k \in DOMAIN routes, beh \in [Middlewares -> {"pass", "stopErr"}],
          ret \in Errors \cup {NoErr} : Dispatch(k, beh, ret)

SpecAssign == InitRouter /\ [][NextAssign]_vars

\* ------------------------------------------------------------ strconv
\* A Go string is the sequence of its characters, so that parsing is computed
\* and not looked up.

Digits == <<"0", "1", "2", "3", "4", "5", "6", "7", "8", "9">>

IsDigit(c) == \E i \in DOMAIN Digits : Digits[i] = c

DigitVal(c) == (CHOOSE i \in DOMAIN Digits : Digits[i] = c) - 1

AllDigits(s) == \A i \in DOMAIN s : IsDigit(s[i])

\* The base-10 value of a string of digits.
RECURSIVE DecimalValue(_)
DecimalValue(s) ==
    IF s = <<>> THEN 0
    ELSE 10 * DecimalValue(SubSeq(s, 1, Len(s) - 1)) + DigitVal(s[Len(s)])

RECURSIVE Pow2(_)
Pow2(n) == IF n = 0 THEN 1 ELSE 2 * Pow2(n - 1)

\* The widths whose range an input can exceed: the longest input string has
\* fewer than ten characters, so every value read fits 32 bits, and bitSize 0
\* is the 64 bits of int.
Narrow(bitSize) == bitSize \in {8, 16}

ErrSyntax == "invalid syntax"
ErrRange == "value out of range"

\* strconv.ParseUint(s, 10, bitSize): digits only, no sign, no underscore.
ParseUint(s, bitSize) ==
    IF s = <<>> \/ ~AllDigits(s)
    THEN [err |-> <<"strconv.ParseUint", ErrSyntax>>, v |-> 0]
    ELSE IF Narrow(bitSize) /\ DecimalValue(s) >= Pow2(bitSize)
    THEN [err |-> <<"strconv.ParseUint", ErrRange>>, v |-> Pow2(bitSize) - 1]
    ELSE [err |-> NoErr, v |-> DecimalValue(s)]

\* strconv.ParseInt(s, 10, bitSize): an optional sign, then ParseUint, then
\* the range of the width; bitSize 0 is the width of int.
ParseInt(s, bitSize) ==
    LET signed == s # <<>> /\ s[1] \in {"+", "-"}
        neg    == s # <<>> /\ s[1] = "-"
        body   == IF signed THEN Tail(s) ELSE s
        narrow == Narrow(bitSize)
        cutoff == IF narrow THEN Pow2(bitSize - 1) ELSE 0
    IN  IF s = <<>> \/ body = <<>> \/ ~AllDigits(body)
        THEN [err |-> <<"strconv.ParseInt", ErrSyntax>>, v |-> 0]
        ELSE IF narrow /\ ~neg /\ DecimalValue(body) >= cutoff
        THEN [err |-> <<"strconv.ParseInt", ErrRange>>, v |-> cutoff - 1]
        ELSE IF narrow /\ neg /\ DecimalValue(body) > cutoff
        THEN [err |-> <<"strconv.ParseInt", ErrRange>>, v |-> 0 - cutoff]
        ELSE [err |-> NoErr,
              v |-> IF neg THEN 0 - DecimalValue(body) ELSE DecimalValue(body)]

TrueStrings == {<<"1">>, <<"t">>, <<"T">>, <<"T", "R", "U", "E">>,
                <<"t", "r", "u", "e">>, <<"T", "r", "u", "e">>}
FalseStrings == {<<"0">>, <<"f">>, <<"F">>, <<"F", "A", "L", "S", "E">>,
                 <<"f", "a", "l", "s", "e">>, <<"F", "a", "l", "s", "e">>}

\* strconv.ParseBool
ParseBool(s) ==
    IF s \in TrueStrings THEN [err |-> NoErr, v |-> TRUE]
    ELSE IF s \in FalseStrings THEN [err |-> NoErr, v |-> FALSE]
    ELSE [err |-> <<"strconv.ParseBool", ErrSyntax>>, v |-> FALSE]

IndexOf(s, c) ==
    IF \E i \in DOMAIN s : s[i] = c
    THEN CHOOSE i \in DOMAIN s : s[i] = c /\ \A j \in 1..(i - 1) : s[j] # c
    ELSE 0

RECURSIVE StripTrailingZeros(_)
StripTrailingZeros(s) ==
    IF s # <<>> /\ s[Len(s)] = "0" THEN StripTrailingZeros(SubSeq(s, 1, Len(s) - 1))
    ELSE s

\* strconv.ParseFloat(s, bitSize) on plain decimal notation: an optional sign,
\* digits, an optional point and digits, at least one digit in all.  The
\* number read is kept as sign, decimal mantissa and count of fraction digits;
\* the inputs carry no exponent, hexadecimal, infinity or NaN spelling, and
\* the few digits they have are not rounded differently by the two widths.
ParseFloat(s, bitSize) ==
    LET signed == s # <<>> /\ s[1] \in {"+", "-"}
        neg    == s # <<>> /\ s[1] = "-"
        body   == IF signed THEN Tail(s) ELSE s
        dot    == IndexOf(body, ".")
        whole  == IF dot = 0 THEN body ELSE SubSeq(body, 1, dot - 1)
        frac   == IF dot = 0 THEN <<>> ELSE SubSeq(body, dot + 1, Len(body))
        digits == StripTrailingZeros(frac)
    IN  IF whole \o frac = <<>> \/ ~AllDigits(whole) \/ ~AllDigits(frac)
        THEN [err |-> <<"strconv.ParseFloat", ErrSyntax>>, v |-> <<FALSE, 0, 0>>]
        ELSE [err |-> NoErr, v |-> <<neg, DecimalValue(whole \o digits), Len(digits)>>]

\* ------------------------------------------------------------ Go values
\* A Go type: its name, its kind, its element type (pointer, slice), and, for
\* a type that has a FromRequest method, the receiver of the method, the part
\* of the request it reads and the name it reads there.
Basic(kind) ==
    [name |-> kind, kind |-> kind, elem |-> <<>>, recv |-> "none", src |-> "none", key |-> ""]
Named(name, kind) ==
    [name |-> name, kind |-> kind, elem |-> <<>>, recv |-> "none", src |-> "none", key |-> ""]
PtrTo(t) ==
    [name |-> "*" \o t.name, kind |-> "ptr", elem |-> <<t>>, recv |-> "none", src |-> "none", key |-> ""]
SliceOf(t) ==
    [name |-> "[]" \o t.name, kind |-> "slice", elem |-> <<t>>, recv |-> "none", src |-> "none", key |-> ""]
Extractor(name, kind, recv, src, key) ==
    [name |-> name, kind |-> kind, elem |-> <<>>, recv |-> recv, src |-> src, key |-> key]

Elem(t) == t.elem[1]

IntKinds == {"int", "int8", "int16", "int32", "int64"}
UintKinds == {"uint", "uint8", "uint16", "uint32", "uint64"}
FloatKinds == {"float32", "float64"}

\* A value carries its representation with it.
VNil == [k |-> "nil", v |-> <<>>]
VStr(s) == [k |-> "string", v |-> s]
VInt(n) == [k |-> "int", v |-> n]
VFloat(f) == [k |-> "float", v |-> f]
VBool(b) == [k |-> "bool", v |-> b]
VPtr(x) == [k |-> "ptr", v |-> x]
VSlice(runs) == [k |-> "slice", v |-> runs]
VStruct(x) == [k |-> "struct", v |-> x]

\* reflect.Zero(t)
Zero(t) ==
    CASE t.kind = "string" -> VStr(<<>>)
      [] t.kind \in IntKinds \cup UintKinds -> VInt(0)
      [] t.kind \in FloatKinds -> VFloat(<<FALSE, 0, 0>>)
      [] t.kind = "bool" -> VBool(FALSE)
      [] t.kind = "struct" -> VStruct(<<>>)
      [] OTHER -> VNil

\* A []string of the request is kept as runs of equal strings, so that a list
\* of a thousand elements is a short value.
Repeat(s, n) == <<[s |-> s, n |-> n]>>

RECURSIVE ListLen(_)
ListLen(list) == IF list = <<>> THEN 0 ELSE Head(list).n + ListLen(Tail(list))

ListFirst(list) == list[1].s

\* ------------------------------------------------------------ mapper
ErrPointerRequired == "binding: destination must be a pointer"
ErrStructRequired == "binding: destination must be a struct"
ErrUnsupportedType == "binding: unsupported type"
ErrTooManyFields == "binding: too many fields"

maxFields == 1000

Done(val) == [err |-> NoErr, val |-> val, panic |-> FALSE]
Failed(err, val) == [err |-> err, val |-> val, panic |-> FALSE]
Panicked(val) == [err |-> NoErr, val |-> val, panic |-> TRUE]

\* The end of bindInt, bindUint, bindFloat and bindBool: the parse error
\* wrapped, or the field set to the value read.
SetParsed(p, what, cur, kind) ==
    IF p.err # NoErr THEN Failed(<<what>> \o p.err, cur) ELSE Done([k |-> kind, v |-> p.v])

\* Mutant: the width of the field is not given to the parser.
bindIntWide(cur, formValue, bitSize) ==
    IF formValue = <<>> THEN Done(VInt(0))
    ELSE SetParsed(ParseInt(formValue, 64), "parsing int", cur, "int")

bindInt(cur, formValue, bitSize) ==
    IF formValue = <<>> THEN Done(VInt(0))
    ELSE SetParsed(ParseInt(formValue, bitSize), "parsing int", cur, "int")

bindUint(cur, formValue, bitSize) ==
    IF formValue = <<>> THEN Done(VInt(0))
    ELSE SetParsed(ParseUint(formValue, bitSize), "parsing uint", cur, "int")

bindFloat(cur, formValue, bitSize) ==
    IF formValue = <<>> THEN Done(VFloat(<<FALSE, 0, 0>>))
    ELSE SetParsed(ParseFloat(formValue, bitSize), "parsing float", cur, "float")

bindBool(cur, formValue) ==
    IF formValue = <<>> THEN Done(VBool(FALSE))
    ELSE SetParsed(ParseBool(formValue), "parsing bool", cur, "bool")

\* Mutant: the empty string leaves the field as it is.
setValueKeepingEmpty(t, cur, formValue) ==
    IF formValue = <<>> THEN Done(cur)
    ELSE CASE t.kind = "string" -> Done(VStr(formValue))
           [] t.kind = "int" -> bindInt(cur, formValue, 0)
           [] t.kind = "int8" -> bindInt(cur, formValue, 8)
           [] t.kind = "int16" -> bindInt(cur, formValue, 16)
           [] t.kind = "int32" -> bindInt(cur, formValue, 32)
           [] t.kind = "int64" -> bindInt(cur, formValue, 64)
           [] t.kind = "uint" -> bindUint(cur, formValue, 0)
           [] t.kind = "uint8" -> bindUint(cur, formValue, 8)
           [] t.kind = "uint16" -> bindUint(cur, formValue, 16)
           [] t.kind = "uint32" -> bindUint(cur, formValue, 32)
           [] t.kind = "uint64" -> bindUint(cur, formValue, 64)
           [] t.kind = "float32" -> bindFloat(cur, formValue, 32)
           [] t.kind = "float64" -> bindFloat(cur, formValue, 64)
           [] t.kind = "bool" -> bindBool(cur, formValue)
           [] OTHER -> Failed(<<ErrUnsupportedType \o ": " \o t.kind, ErrUnsupportedType>>, cur)

\* setValue(field, formValue) on a field of type t that holds cur.
setValue(t, cur, formValue) ==
    IF formValue = <<>> THEN Done(Zero(t))
    ELSE CASE t.kind = "string" -> Done(VStr(formValue))
           [] t.kind = "int" -> bindInt(cur, formValue, 0)
           [] t.kind = "int8" -> bindInt(cur, formValue, 8)
           [] t.kind = "int16" -> bindInt(cur, formValue, 16)
           [] t.kind = "int32" -> bindInt(cur, formValue, 32)
           [] t.kind = "int64" -> bindInt(cur, formValue, 64)
           [] t.kind = "uint" -> bindUint(cur, formValue, 0)
           [] t.kind = "uint8" -> bindUint(cur, formValue, 8)
           [] t.kind = "uint16" -> bindUint(cur, formValue, 16)
           [] t.kind = "uint32" -> bindUint(cur, formValue, 32)
           [] t.kind = "uint64" -> bindUint(cur, formValue, 64)
           [] t.kind = "float32" -> bindFloat(cur, formValue, 32)
           [] t.kind = "float64" -> bindFloat(cur, formValue, 64)
           [] t.kind = "bool" -> bindBool(cur, formValue)
           [] OTHER -> Failed(<<ErrUnsupportedType \o ": " \o t.kind, ErrUnsupportedType>>, cur)


\* The loop of bindValueSlice and bindPtrSlice over formValue, from element
\* index i on (a run of equal strings gives a run of equal elements): the
\* elements set so far, or the error of the first string that does not parse.
\* ElementSet is the loop body after setValue returned r.
RECURSIVE bindElements(_, _, _, _, _)
RECURSIVE ElementSet(_, _, _, _, _, _)
bindElements(t, isPtr, formValue, i, slice) ==
    IF formValue = <<>> THEN Done(VSlice(slice))
    ELSE ElementSet(t, isPtr, formValue, i, slice, setValue(t, Zero(t), Head(formValue).s))

ElementSet(t, isPtr, formValue, i, slice, r) ==
    IF r.err # NoErr
    THEN Failed(<<"binding slice element " \o ToString(i)>> \o r.err, VSlice(slice))
    ELSE bindElements(t, isPtr, Tail(formValue), i + Head(formValue).n,
                      Append(slice, [s |-> IF isPtr THEN VPtr(r.val) ELSE r.val,
                                     n |-> Head(formValue).n]))

\* field.Set(slice) is reached only when every element was set.
SetSlice(r, cur) == IF r.err # NoErr THEN Failed(r.err, cur) ELSE r

\* bindPtrSlice(field, formValue) on a field of slice type t that holds cur.
bindPtrSlice(t, cur, formValue) ==
    SetSlice(bindElements(Elem(Elem(t)), TRUE, formValue, 0, <<>>), cur)

\* bindValueSlice(field, formValue)
bindValueSlice(t, cur, formValue) ==
    SetSlice(bindElements(Elem(t), FALSE, formValue, 0, <<>>), cur)

\* The element types a []string can be assigned to: string itself, not a
\* defined type whose kind is string.
IsPlainString(t) == t.name = "string"

bindSliceNoGuard(t, cur, formValue) ==
    IF Elem(t).kind = "string"
    THEN (IF IsPlainString(Elem(t))
          THEN Done(VSlice([i \in DOMAIN formValue |->
                              [s |-> VStr(formValue[i].s), n |-> formValue[i].n]]))
          ELSE Panicked(cur))
    ELSE IF Elem(t).kind = "ptr" THEN bindPtrSlice(t, cur, formValue)
    ELSE bindValueSlice(t, cur, formValue)

\* bindSlice(field, formValue) on a field of slice type t that holds cur.
bindSlice(t, cur, formValue) ==
    IF ListLen(formValue) > maxFields THEN Failed(<<ErrTooManyFields>>, cur)
    ELSE IF Elem(t).kind = "string"
    THEN (IF IsPlainString(Elem(t))
          THEN Done(VSlice([i \in DOMAIN formValue |->
                              [s |-> VStr(formValue[i].s), n |-> formValue[i].n]]))
          ELSE Panicked(cur))
    ELSE IF Elem(t).kind = "ptr" THEN bindPtrSlice(t, cur, formValue)
    ELSE bindValueSlice(t, cur, formValue)

\* Every path of setTo that succeeds ends in a Set of the field, which panics
\* on a field reached through an unexported struct field.
SetField(r, cur, canSet) ==
    IF r.err = NoErr /\ ~r.panic /\ ~canSet THEN Panicked(cur) ELSE r

\* The switch of setTo on a field of kind other than pointer.
setKind(t, cur, value, canSet) ==
    SetField(IF t.kind = "slice" THEN bindSlice(t, cur, value)
             ELSE IF ListLen(value) = 0 THEN Done(Zero(t))
             ELSE setValue(t, cur, ListFirst(value)),
             cur, canSet)

\* The value a pointer field points to once setTo has set it.
Pointed(r) == [r EXCEPT !.val = VPtr(@)]

\* setTo(field, value): a nil pointer is allocated first, then the pointed-to
\* value is set.
setTo(t, cur, value, canSet) ==
    IF t.kind = "ptr"
    THEN IF cur = VNil /\ ~canSet THEN Panicked(cur)
         ELSE Pointed(setKind(Elem(t), IF cur = VNil THEN Zero(Elem(t)) ELSE cur.v,
                              value, canSet))
    ELSE setKind(t, cur, value, canSet)

FormKeyNameOnly(f) == f.name

\* cmp.Or(f.Tag.Get("form"), f.Name)
FormKey(f) == IF f.tag # "" THEN f.tag ELSE f.name

\* len(values): the keys that are named, and extra keys no field looks up.
NumKeys(values) == Cardinality(DOMAIN values.named) + values.extra

\* The loop of mapTo over the fields of struct type st, from field i on.
\* FieldSet is the loop body after setTo returned r.
RECURSIVE mapFields(_, _, _, _)
RECURSIVE FieldSet(_, _, _, _, _)
mapFields(st, values, fields, i) ==
    IF i > Len(st.fields) THEN Done(fields)
    ELSE IF FormKey(st.fields[i]) = "-" \/ FormKey(st.fields[i]) \notin DOMAIN values.named
    THEN mapFields(st, values, fields, i + 1)
    ELSE FieldSet(st, values, fields, i,
                  setTo(st.fields[i].type, fields[i], values.named[FormKey(st.fields[i])],
                        st.fields[i].exported))

FieldSet(st, values, fields, i, r) ==
    IF r.panic THEN Panicked([fields EXCEPT ![i] = r.val])
    ELSE IF r.err # NoErr
    THEN Failed(<<"binding field " \o st.fields[i].name>> \o r.err, [fields EXCEPT ![i] = r.val])
    ELSE mapFields(st, values, [fields EXCEPT ![i] = r.val], i + 1)

\* A destination handed to a binder as `any`: a pointer or not, nil or not,
\* the kind it points to, and for a struct its type and field values.
PtrToStruct(st, fields) ==
    [isPtr |-> TRUE, isNil |-> FALSE, kind |-> "struct", type |-> st, fields |-> fields]

mapToOffByOne(values, dest) ==
    IF NumKeys(values) >= maxFields THEN Failed(<<ErrTooManyFields>>, dest.fields)
    ELSE IF ~dest.isPtr THEN Failed(<<ErrPointerRequired>>, dest.fields)
    ELSE IF dest.isNil \/ dest.kind # "struct" THEN Failed(<<ErrStructRequired>>, dest.fields)
    ELSE mapFields(dest.type, values, dest.fields, 1)

\* Mutant: the kind of the destination is looked at before whether it is a
\* pointer, so a struct passed by value is bound.
mapToStructFirst(values, dest) ==
    IF NumKeys(values) > maxFields THEN Failed(<<ErrTooManyFields>>, dest.fields)
    ELSE IF ~dest.isPtr /\ dest.kind # "struct" THEN Failed(<<ErrPointerRequired>>, dest.fields)
    ELSE IF dest.isNil \/ dest.kind # "struct" THEN Failed(<<ErrStructRequired>>, dest.fields)
    ELSE mapFields(dest.type, values, dest.fields, 1)

\* mapTo(values, dest)
mapTo(values, dest) ==
    IF NumKeys(values) > maxFields THEN Failed(<<ErrTooManyFields>>, dest.fields)
    ELSE IF ~dest.isPtr THEN Failed(<<ErrPointerRequired>>, dest.fields)
    ELSE IF dest.isNil \/ dest.kind # "struct" THEN Failed(<<ErrStructRequired>>, dest.fields)
    ELSE mapFields(dest.type, values, dest.fields, 1)


\* ------------------------------------------------------------ mapper inputs
MaxKeys == 2

Field(name, tag, type) == [name |-> name, tag |-> tag, type |-> type, exported |-> TRUE]
Unexported(name, tag, type) == [name |-> name, tag |-> tag, type |-> type, exported |-> FALSE]

\* type Profile struct { Name string `form:"name"`; Age int; Secret string `form:"-"` }
Profile == [name |-> "Profile",
            fields |-> <<Field("Name", "name", Basic("string")),
                         Field("Age", "", Basic("int")),
                         Field("Secret", "-", Basic("string"))>>]

\* type Filter struct { Tags []string `form:"tags"`; Nums []int; Level int8 `form:"level"` }
Filter == [name |-> "Filter",
           fields |-> <<Field("Tags", "tags", SliceOf(Basic("string"))),
                        Field("Nums", "", SliceOf(Basic("int"))),
                        Field("Level", "level", Basic("int8"))>>]

\* type Page struct { Limit *uint8 `form:"limit"`; Ptrs []*int16 `form:"ptrs"`; note string }
Page == [name |-> "Page",
         fields |-> <<Field("Limit", "limit", PtrTo(Basic("uint8"))),
                      Field("Ptrs", "ptrs", SliceOf(PtrTo(Basic("int16")))),
                      Unexported("note", "", Basic("string"))>>]

\* type Probe struct { Ratio float64 `form:"ratio"`; Flag bool `form:"flag"`; Meta struct{} `form:"meta"` }
Probe == [name |-> "Probe",
          fields |-> <<Field("Ratio", "ratio", Basic("float64")),
                       Field("Flag", "flag", Basic("bool")),
                       Field("Meta", "meta", Named("struct{}", "struct"))>>]

\* type Token string with func (t *Token) FromRequest(r *http.Request) error,
\* which reads the X-Token header.
Token == Extractor("Token", "string", "ptr", "header", "X-Token")

\* type Batch struct { Ids *[]int `form:"ids"`; Names []Token `form:"names"`; tags []string }
Batch == [name |-> "Batch",
          fields |-> <<Field("Ids", "ids", PtrTo(SliceOf(Basic("int")))),
                       Field("Names", "names", SliceOf(Token)),
                       Unexported("tags", "", SliceOf(Basic("string")))>>]

\* type Nested struct { Inner *struct{} `form:"inner"`; Items []struct{} `form:"items"`;
\*                      Extra map[string]string `form:"extra"` }
Nested == [name |-> "Nested",
           fields |-> <<Field("Inner", "inner", PtrTo(Named("struct{}", "struct"))),
                        Field("Items", "items", SliceOf(Named("struct{}", "struct"))),
                        Field("Extra", "extra", Named("map[string]string", "map"))>>]

MapperStructs == {Profile, Filter, Page, Probe, Batch, Nested}

InputStrings == {<<>>, <<"4", "2">>, <<"3", "0", "0">>, <<"-", "7">>,
                 <<"a", "b", "c">>, <<"t">>, <<"1", ".", "5">>}

\* The lists a key can carry: one string, two strings, and lists at and just
\* over the ceiling.
InputLists ==
    {Repeat(s, 1) : s \in InputStrings}
    \cup {Repeat(<<"4", "2">>, 1) \o Repeat(<<"a", "b", "c">>, 1),
          Repeat(<<"a", "b", "c">>, 1) \o Repeat(<<"4", "2">>, 1),
          Repeat(<<"4", "2">>, maxFields), Repeat(<<"4", "2">>, maxFields + 1),
          Repeat(<<"4", "2">>, maxFields) \o Repeat(<<"a", "b", "c">>, 1)}

\* The keys a request can name for struct type st: every form tag and every
\* declared field name.
KeysOf(st) == {st.fields[i].name : i \in DOMAIN st.fields}
              \cup ({st.fields[i].tag : i \in DOMAIN st.fields} \ {""})

\* The number of other keys: none, or enough to bring the request to the
\* ceiling and one over it.
ExtraKeys == {0} \cup ((maxFields - MaxKeys)..(maxFields + 1))

ValuesOf(st, maxKeys) ==
    {[named |-> named, extra |-> extra] :
        named \in UNION {[K -> InputLists] : K \in {S \in SUBSET KeysOf(st) : Cardinality(S) <= maxKeys}},
        extra \in ExtraKeys}

\* A value a field may hold before the call.
RECURSIVE Preset(_)
Preset(t) ==
    CASE t.kind = "string" -> VStr(<<"o", "l", "d">>)
      [] t.kind \in IntKinds \cup UintKinds -> VInt(7)
      [] t.kind \in FloatKinds -> VFloat(<<FALSE, 25, 1>>)
      [] t.kind = "bool" -> VBool(TRUE)
      [] t.kind = "struct" -> VStruct(<<"o", "l", "d">>)
      [] t.kind = "ptr" -> VPtr(Preset(Elem(t)))
      [] t.kind = "slice" -> VSlice(<<[s |-> Preset(Elem(t)), n |-> 1]>>)
      [] OTHER -> VNil

ZeroFields(st) == [i \in DOMAIN st.fields |-> Zero(st.fields[i].type)]
PresetFields(st) == [i \in DOMAIN st.fields |-> Preset(st.fields[i].type)]

\* Destinations that are not a pointer to a struct: a struct value, an
\* untyped nil, a nil *Profile and a *int.
OtherDests ==
    {[isPtr |-> FALSE, isNil |-> FALSE, kind |-> "struct", type |-> Profile, fields |-> ZeroFields(Profile)],
     [isPtr |-> FALSE, isNil |-> TRUE, kind |-> "invalid", type |-> Profile, fields |-> <<>>],
     [isPtr |-> TRUE, isNil |-> TRUE, kind |-> "struct", type |-> Profile, fields |-> <<>>],
     [isPtr |-> TRUE, isNil |-> FALSE, kind |-> "int", type |-> Profile, fields |-> <<>>]}

MapperDests ==
    {PtrToStruct(st, ZeroFields(st)) : st \in MapperStructs}
    \cup {PtrToStruct(st, PresetFields(st)) : st \in MapperStructs}
    \cup OtherDests

Pending(fn, in) == [op |-> "pending", fn |-> fn, in |-> in, out |-> <<>>]
Returned(fn, in, out) == [op |-> "returned", fn |-> fn, in |-> in, out |-> out]

\* mapTo(values, dest) is called and returns or panics.
MapTo ==
    /\ call.op = "pending" /\ call.fn = "mapTo"
    /\ call' = Returned("mapTo", call.in, mapTo(call.in.values, call.in.dest))
    /\ UNCHANGED <<arrays, routers, routes, hist, last, implCache, stdJSONSerializer, goroutines>>

InitMapper ==
    /\ arrays = <<>> /\ routers = <<>> /\ routes = <<>> /\ hist = <<>> /\ last = Idle
    /\ implCache = {}
    /\ stdJSONSerializer = Iface(StdJSONSerializer) /\ goroutines = <<>>
    /\ \E d \in MapperDests : \E v \in ValuesOf(d.type, MaxKeys) :
          call = Pending("mapTo", [dest |-> d, values |-> v])

NextMapper == MapTo

SpecMapper == InitMapper /\ [][NextMapper]_vars

\* ------------------------------------------------------------ media types
\* A header value is the sequence of its lexemes: tokens (kept in lower case,
\* with a mark when the text has upper-case letters), quoted strings, and the
\* characters "/", ";", "=" and " ".
Tok(s) == [t |-> "tok", s |-> s, up |-> FALSE]
TokUp(s) == [t |-> "tok", s |-> s, up |-> TRUE]
Quoted(s) == [t |-> "quoted", s |-> s, up |-> FALSE]
Sym(c) == [t |-> c, s |-> "", up |-> FALSE]

\* strings.ToLower
ToLower(v) == [i \in DOMAIN v |-> [v[i] EXCEPT !.up = FALSE]]

RECURSIVE TrimLeft(_)
TrimLeft(v) == IF v # <<>> /\ Head(v).t = " " THEN TrimLeft(Tail(v)) ELSE v

RECURSIVE TrimRight(_)
TrimRight(v) ==
    IF v # <<>> /\ v[Len(v)].t = " " THEN TrimRight(SubSeq(v, 1, Len(v) - 1)) ELSE v

\* strings.TrimSpace
TrimSpace(v) == TrimRight(TrimLeft(v))

\* strings.Cut(v, ";"): the place of the first ";", or 0.
FirstSemi(v) ==
    IF \E i \in DOMAIN v : v[i].t = ";"
    THEN CHOOSE i \in DOMAIN v : v[i].t = ";" /\ \A j \in 1..(i - 1) : v[j].t # ";"
    ELSE 0

\* mime.checkMediaTypeDisposition: a token, or a token, a slash and a token.
checkMediaTypeDisposition(s) ==
    IF s = <<>> \/ s[1].t # "tok" THEN <<"mime: no media type">>
    ELSE IF Len(s) = 1 THEN NoErr
    ELSE IF s[2].t # "/" THEN <<"mime: expected slash after first token">>
    ELSE IF Len(s) = 2 \/ s[3].t # "tok" THEN <<"mime: expected token after slash">>
    ELSE IF Len(s) > 3 THEN <<"mime: unexpected content after media subtype">>
    ELSE NoErr

NoParam(v) == [key |-> "", value |-> Sym(" "), rest |-> v]

\* The part of mime.consumeMediaParam after the ";" and the spaces behind it:
\* name "=" value, with nothing between them; v is what to return as the rest
\* on failure.
consumeNameValue(b, v) ==
    IF Len(b) < 3 THEN NoParam(v)
    ELSE IF b[1].t # "tok" \/ b[2].t # "=" \/ b[3].t \notin {"tok", "quoted"} THEN NoParam(v)
    ELSE [key |-> b[1].s, value |-> b[3], rest |-> SubSeq(b, 4, Len(b))]

\* mime.consumeMediaParam(v): key "" when v does not start with a parameter.
consumeMediaParam(v) ==
    IF TrimLeft(v) = <<>> \/ Head(TrimLeft(v)).t # ";" THEN NoParam(v)
    ELSE consumeNameValue(TrimLeft(Tail(TrimLeft(v))), v)

ErrInvalidMediaParameter == "mime: invalid media parameter"

\* The parameter loop of mime.ParseMediaType; ParamRead is its body after
\* consumeMediaParam returned p.
RECURSIVE ParseParams(_, _)
RECURSIVE ParamRead(_, _)
ParseParams(v, params) ==
    IF TrimLeft(v) = <<>> THEN [params |-> params, err |-> NoErr]
    ELSE ParamRead(params, consumeMediaParam(TrimLeft(v)))

ParamRead(params, p) ==
    IF p.key = ""
    THEN (IF TrimSpace(p.rest) = <<Sym(";")>>
          THEN [params |-> params, err |-> NoErr]
          ELSE [params |-> {}, err |-> <<ErrInvalidMediaParameter>>])
    ELSE IF \E q \in params : q.key = p.key /\ q.value # p.value
    THEN [params |-> {}, err |-> <<"mime: duplicate parameter name">>]
    ELSE ParseParams(p.rest, params \cup {[key |-> p.key, value |-> p.value]})

\* What ParseMediaType returns once the media type is checked.
MediaParsed(mediatype, checked, ps) ==
    IF checked # NoErr THEN [mediatype |-> <<>>, params |-> {}, err |-> checked]
    ELSE IF ps.err = <<ErrInvalidMediaParameter>>
    THEN [mediatype |-> mediatype, params |-> {}, err |-> ps.err]
    ELSE IF ps.err # NoErr THEN [mediatype |-> <<>>, params |-> {}, err |-> ps.err]
    ELSE [mediatype |-> mediatype, params |-> ps.params, err |-> NoErr]

\* The text before the first ";".
MediaBase(v) == IF FirstSemi(v) = 0 THEN v ELSE SubSeq(v, 1, FirstSemi(v) - 1)

\* mime.ParseMediaType(v)
ParseMediaType(v) ==
    MediaParsed(TrimSpace(ToLower(MediaBase(v))),
                checkMediaTypeDisposition(TrimSpace(ToLower(MediaBase(v)))),
                ParseParams(SubSeq(v, Len(MediaBase(v)) + 1, Len(v)), {}))

\* ------------------------------------------------------------ binding.Default
MIMEJSON == <<Tok("application"), Sym("/"), Tok("json")>>
MIMEMultipartForm == <<Tok("multipart"), Sym("/"), Tok("form-data")>>
MIMEPOSTForm == <<Tok("application"), Sym("/"), Tok("x-www-form-urlencoded")>>
XMLMIME == <<Tok("application"), Sym("/"), Tok("xml")>>

MethodGet == "GET"

\* The switch of Default on the lower-cased media type.
SwitchMediaType(mediaType) ==
    CASE mediaType = MIMEJSON -> "jsonBinder"
      [] mediaType = XMLMIME -> "xmlBinder"
      [] mediaType \in {MIMEMultipartForm, MIMEPOSTForm} -> "formBinder"
      [] OTHER -> "queryBinder"

\* Default after ParseMediaType returned.
SelectBinder(parsed) ==
    IF parsed.err # NoErr THEN "queryBinder" ELSE SwitchMediaType(ToLower(parsed.mediatype))

DefaultIgnoringMethod(method, contentType) == SelectBinder(ParseMediaType(contentType))

\* binding.Default(method, contentType)
Default(method, contentType) ==
    IF method = MethodGet THEN "queryBinder"
    ELSE SelectBinder(ParseMediaType(contentType))


\* ------------------------------------------------------------ Default inputs
\* The media types a request can name, each with the name it is known by
\* ("" when the text is not a media type at all).
MediaTexts ==
    {[name |-> "application/json", text |-> MIMEJSON],
     [name |-> "application/xml", text |-> XMLMIME],
     [name |-> "application/x-www-form-urlencoded", text |-> MIMEPOSTForm],
     [name |-> "multipart/form-data", text |-> MIMEMultipartForm],
     [name |-> "text/plain", text |-> <<Tok("text"), Sym("/"), Tok("plain")>>],
     [name |-> "invalid", text |-> <<Tok("invalid")>>],
     [name |-> "", text |-> <<>>],
     [name |-> "", text |-> <<Tok("application"), Sym("/")>>],
     [name |-> "", text |-> <<Sym("/"), Tok("json")>>],
     [name |-> "", text |-> <<Tok("application"), Sym(" "), Tok("json")>>],
     [name |-> "", text |-> <<Tok("application"), Sym("/"), Tok("json"), Sym("/"), Tok("x")>>]}

\* The same text with the token at place i, or every token, in upper case.
UpperAt(v, i) == [j \in DOMAIN v |-> IF j = i /\ v[j].t = "tok" THEN [v[j] EXCEPT !.up = TRUE] ELSE v[j]]
UpperAll(v) == [j \in DOMAIN v |-> IF v[j].t = "tok" THEN [v[j] EXCEPT !.up = TRUE] ELSE v[j]]
Spellings(v) == {v, UpperAll(v)} \cup {UpperAt(v, i) : i \in DOMAIN v}

\* What can follow the media type, and whether it is a well-formed parameter
\* list: charset and boundary parameters, a trailing semicolon, and parameters
\* without "=", name or value, with spaces around "=", or repeated with
\* different values.
ParamTexts ==
    {[ok |-> TRUE, text |-> <<>>],
     [ok |-> TRUE, text |-> <<Sym(";"), Sym(" "), Tok("charset"), Sym("="), Tok("utf-8")>>],
     [ok |-> TRUE, text |-> <<Sym(" "), Sym(";"), TokUp("charset"), Sym("="), TokUp("utf-8")>>],
     [ok |-> TRUE, text |-> <<Sym(";"), Sym(" "), Tok("boundary"), Sym("="), Quoted("x y")>>],
     [ok |-> TRUE, text |-> <<Sym(";"), Tok("charset"), Sym("="), Tok("utf-8"),
                              Sym(";"), Sym(" "), Tok("boundary"), Sym("="), Tok("x")>>],
     [ok |-> TRUE, text |-> <<Sym(";")>>],
     [ok |-> TRUE, text |-> <<Sym(";"), Sym(" "), Tok("charset"), Sym("="), Tok("utf-8"), Sym(";")>>],
     [ok |-> FALSE, text |-> <<Sym(";"), Sym(" "), Tok("charset")>>],
     [ok |-> FALSE, text |-> <<Sym(";"), Sym(" "), Sym("="), Tok("utf-8")>>],
     [ok |-> FALSE, text |-> <<Sym(";"), Sym(" "), Tok("charset"), Sym("=")>>],
     [ok |-> FALSE, text |-> <<Sym(";"), Tok("charset"), Sym(" "), Sym("="), Sym(" "), Tok("utf-8")>>],
     [ok |-> FALSE, text |-> <<Sym(";"), Sym(";")>>],
     [ok |-> FALSE, text |-> <<Sym(";"), Tok("a"), Sym("="), Tok("1"), Sym(";"), Tok("a"), Sym("="), Tok("2")>>]}

BindMethods == {"GET", "POST", "PUT", "PATCH", "DELETE"}

\* binding.Default(method, contentType) is called and returns.
DefaultCall ==
    /\ call.op = "pending" /\ call.fn = "Default"
    /\ call' = Returned("Default", call.in, Default(call.in.method, call.in.contentType))
    /\ UNCHANGED <<arrays, routers, routes, hist, last, implCache, stdJSONSerializer, goroutines>>

InitDefault ==
    /\ arrays = <<>> /\ routers = <<>> /\ routes = <<>> /\ hist = <<>> /\ last = Idle
    /\ implCache = {}
    /\ stdJSONSerializer = Iface(StdJSONSerializer) /\ goroutines = <<>>
    /\ \E method \in BindMethods, m \in MediaTexts, p \in ParamTexts :
          \E spelt \in Spellings(m.text) :
             call = Pending("Default", [method |-> method, contentType |-> spelt \o p.text,
                                        media |-> m.name, params |-> p.ok])

NextDefault == DefaultCall

SpecDefault == InitDefault /\ [][NextDefault]_vars

\* ------------------------------------------------------------ requests
\* An *http.Request: the method, the text of the Content-Type header (empty
\* when there is none), the URL query, the headers and cookies by name, and
\* the body.  A body has the kind of document it is (none, form, multipart,
\* json, xml) and whether it is well formed; a form or multipart body has its
\* values, a multipart body its file parts by name, and a json or xml body the
\* names of the struct fields its document sets.
NoValues == [named |-> <<>>, extra |-> 0]

\* b over a: a Go map assigned key by key from a and then from b.
Overlay(a, b) == [k \in DOMAIN a \cup DOMAIN b |-> IF k \in DOMAIN b THEN b[k] ELSE a[k]]

\* Per key the list of a followed by the list of b.
Joined(a, b) ==
    [k \in DOMAIN a \cup DOMAIN b |->
        (IF k \in DOMAIN a THEN a[k] ELSE <<>>) \o (IF k \in DOMAIN b THEN b[k] ELSE <<>>)]

\* url.Values.Get and http.Header.Get: the first value of the key, or "".
First(named, key) == IF key \in DOMAIN named THEN ListFirst(named[key]) ELSE <<>>

\* r.URL.Query()
URLQuery(r) == r.query

\* url.ParseQuery on the text of the body: the values of a form body; a
\* document of another kind reads as one key that no field has.
BodyQuery(body) ==
    IF body.kind = "form"
    THEN [values |-> body.values,
          err |-> IF body.ok THEN NoErr ELSE <<"invalid URL escape">>]
    ELSE IF body.kind = "none" THEN [values |-> NoValues, err |-> NoErr]
    ELSE [values |-> [named |-> <<>>, extra |-> 1], err |-> NoErr]

OctetStream == <<Tok("application"), Sym("/"), Tok("octet-stream")>>

\* http.parsePostForm after mime.ParseMediaType returned: only a url-encoded
\* body is read here, and the error of the media type is kept.
PostFormOf(r, parsed) ==
    IF parsed.mediatype = MIMEPOSTForm
    THEN [values |-> BodyQuery(r.body).values,
          err |-> IF parsed.err # NoErr THEN parsed.err ELSE BodyQuery(r.body).err]
    ELSE [values |-> NoValues, err |-> parsed.err]

\* http.parsePostForm(r)
parsePostForm(r) ==
    PostFormOf(r, ParseMediaType(IF r.contentType = <<>> THEN OctetStream ELSE r.contentType))

\* r.Form after r.ParseForm(): the body's values, then the query's.
FormOf(r, post) ==
    [form |-> [named |-> Joined(post.values.named, URLQuery(r).named),
               extra |-> post.values.extra + URLQuery(r).extra],
     err |-> post.err]

\* r.ParseForm()
ParseForm(r) ==
    IF r.method \in {"POST", "PUT", "PATCH"} THEN FormOf(r, parsePostForm(r))
    ELSE FormOf(r, [values |-> NoValues, err |-> NoErr])

ErrNotMultipart == "request Content-Type isn't multipart/form-data"
ErrMissingBoundary == "no multipart boundary param in Content-Type"

\* r.multipartReader after mime.ParseMediaType returned, then ReadForm.
MultipartOf(r, parsed) ==
    IF r.contentType = <<>> \/ parsed.err # NoErr \/ parsed.mediatype # MIMEMultipartForm
    THEN <<ErrNotMultipart>>
    ELSE IF ~\E q \in parsed.params : q.key = "boundary" THEN <<ErrMissingBoundary>>
    ELSE IF r.body.kind # "multipart" \/ ~r.body.ok THEN <<"multipart: NextPart: EOF">>
    ELSE NoErr

\* r.ParseMultipartForm(maxMemory) on a request whose Form is parsed: the
\* multipart form, r.Form with the multipart values appended, or an error.
ParseMultipartForm(r, form) ==
    IF MultipartOf(r, ParseMediaType(r.contentType)) # NoErr
    THEN [parsed |-> FALSE, form |-> form, value |-> <<>>, file |-> <<>>,
          err |-> MultipartOf(r, ParseMediaType(r.contentType))]
    ELSE [parsed |-> TRUE,
          form |-> [form EXCEPT !.named = Joined(@, r.body.values.named)],
          value |-> r.body.values.named, file |-> r.body.files, err |-> NoErr]

\* strings.Contains(contentType, MIMEMultipartForm): the text as written has
\* "multipart/form-data" in it, in lower case.
ContainsMultipart(v) ==
    \E i \in DOMAIN v : i + 2 <= Len(v) /\ SubSeq(v, i, i + 2) = MIMEMultipartForm


\* ------------------------------------------------------------ binders
FileHeader == Named("multipart.FileHeader", "struct")
fileHeaderType == PtrTo(FileHeader)
fileHeaderSliceType == SliceOf(PtrTo(FileHeader))

\* The *multipart.FileHeader values of the parts named in files.
FilePtr(id) == VPtr(VStruct(id))
FileSlice(ids) == VSlice([i \in DOMAIN ids |-> [s |-> FilePtr(ids[i]), n |-> 1]])

\* The loop of handleFileUploads over the fields, from field i on.
RECURSIVE uploadFields(_, _, _, _)
uploadFields(st, files, fields, i) ==
    IF i > Len(st.fields) THEN Done(fields)
    ELSE IF st.fields[i].type \notin {fileHeaderType, fileHeaderSliceType}
            \/ FormKey(st.fields[i]) \notin DOMAIN files
    THEN uploadFields(st, files, fields, i + 1)
    ELSE IF ~st.fields[i].exported THEN Panicked(fields)
    ELSE uploadFields(st, files,
                      [fields EXCEPT ![i] = IF st.fields[i].type = fileHeaderType
                                            THEN FilePtr(files[FormKey(st.fields[i])][1])
                                            ELSE FileSlice(files[FormKey(st.fields[i])])],
                      i + 1)

\* handleFileUploads(files, dest)
handleFileUploads(files, dest) ==
    IF ~dest.isPtr THEN Failed(<<ErrPointerRequired>>, dest.fields)
    ELSE IF dest.isNil \/ dest.kind # "struct" THEN Failed(<<ErrStructRequired>>, dest.fields)
    ELSE uploadFields(dest.type, files, dest.fields, 1)

\* The end of FormBinder.Bind: mapTo on the combined values, after the file
\* fields were set with outcome up (Done when there are no file parts).
FormMapped(values, dest, up) ==
    IF up.panic \/ up.err # NoErr THEN up
    ELSE mapTo(values, [dest EXCEPT !.fields = up.val])

\* FormBinder.Bind from the combining of the values on; mp is what
\* ParseMultipartForm left (parsed FALSE when r.MultipartForm is nil).
FormCombined(r, dest, mp) ==
    FormMapped([named |-> Overlay(Overlay(URLQuery(r).named, mp.form.named), mp.value),
                extra |-> mp.form.extra],
               dest,
               IF mp.parsed /\ DOMAIN mp.file # {}
               THEN handleFileUploads(mp.file, dest) ELSE Done(dest.fields))

\* FormBinder.Bind after r.ParseForm() returned pf.
FormParsed(r, dest, pf) ==
    IF pf.err # NoErr THEN Failed(pf.err, dest.fields)
    ELSE IF ~ContainsMultipart(r.contentType)
    THEN FormCombined(r, dest, [parsed |-> FALSE, form |-> pf.form, value |-> <<>>,
                                file |-> <<>>, err |-> NoErr])
    ELSE IF ParseMultipartForm(r, pf.form).err # NoErr
    THEN Failed(ParseMultipartForm(r, pf.form).err, dest.fields)
    ELSE FormCombined(r, dest, ParseMultipartForm(r, pf.form))

\* FormBinder.Bind(r, dest)
FormBind(r, dest) == FormParsed(r, dest, ParseForm(r))

\* QueryBinder.Bind(r, a)
QueryBind(r, a) == mapTo(URLQuery(r), a)

\* The value a decoder leaves in a field of type t that its document names.
RECURSIVE Decoded(_)
Decoded(t) ==
    CASE t.kind = "string" -> VStr(<<"d", "o", "c">>)
      [] t.kind \in IntKinds \cup UintKinds -> VInt(9)
      [] t.kind \in FloatKinds -> VFloat(<<FALSE, 9, 0>>)
      [] t.kind = "bool" -> VBool(TRUE)
      [] t.kind = "ptr" -> VPtr(Decoded(Elem(t)))
      [] t.kind = "slice" -> VSlice(<<[s |-> Decoded(Elem(t)), n |-> 1]>>)
      [] OTHER -> Zero(t)

\* json.NewDecoder(r.Body).Decode(v) and xml.NewDecoder(r.Body).Decode(v): the
\* decoder wants a non-nil pointer and a document of its format; it sets the
\* exported fields the document names and returns an error when the document
\* is not well formed.
Decode(format, body, dest) ==
    IF ~dest.isPtr \/ dest.isNil THEN Failed(<<format \o ": non-pointer or nil destination">>, dest.fields)
    ELSE IF body.kind # format THEN Failed(<<format \o ": syntax error">>, dest.fields)
    ELSE IF dest.kind # "struct" THEN Failed(<<format \o ": cannot decode into " \o dest.kind>>, dest.fields)
    ELSE [err |-> IF body.ok THEN NoErr ELSE <<format \o ": syntax error">>,
          val |-> [i \in DOMAIN dest.fields |->
                     IF dest.type.fields[i].name \in body.decoded /\ dest.type.fields[i].exported
                     THEN Decoded(dest.type.fields[i].type) ELSE dest.fields[i]],
          panic |-> FALSE]

\* JSONBinder.Bind(r, a), with the standard serializer.
JSONBind(r, a) == Decode("json", r.body, a)

\* XMLBinder.Bind(r, obj)
XMLBind(r, obj) == Decode("xml", r.body, obj)

\* binder.Bind(r, a) for the binder Default returned.
BindWith(binder, r, a) ==
    CASE binder = "jsonBinder" -> JSONBind(r, a)
      [] binder = "xmlBinder" -> XMLBind(r, a)
      [] binder = "formBinder" -> FormBind(r, a)
      [] OTHER -> QueryBind(r, a)


\* ------------------------------------------------------------ extractors
\* isRequestExtractorType(t): t itself when it is a pointer type, else *t,
\* has FromRequest in its method set.
isRequestExtractorType(t) ==
    IF t.kind = "ptr" THEN Elem(t).recv # "none" ELSE t.recv # "none"

\* IsRequestExtractorType(t) with the cache it reads and fills.
IsRequestExtractorType(cache, t) ==
    IF \E e \in cache : e.t = t
    THEN [result |-> (CHOOSE e \in cache : e.t = t).impl, cache |-> cache]
    ELSE [result |-> isRequestExtractorType(t),
          cache |-> cache \cup {[t |-> t, impl |-> isRequestExtractorType(t)]}]

\* The value an extractor of type t stores for the text s.
Stored(t, s) == IF t.kind = "string" THEN VStr(s) ELSE VStruct(s)

ErrNoCookie == "http: named cookie not present"

\* r.PathValue(name): the text the route's wildcard of that name matched, or "".
PathValue(r, name) == IF name \in DOMAIN r.path THEN r.path[name] ELSE <<>>

\* r.FormValue(key): r.Form is filled by ParseMultipartForm, whose errors are
\* dropped, and the first value of the key is returned, or "".
FormValue(r, key) == First(ParseMultipartForm(r, ParseForm(r).form).form.named, key)

\* FromRequest(r) with a missing cookie blanking the value it holds.
FromRequestBlanking(t, cur, r) ==
    CASE t.src = "path" -> Done(Stored(t, PathValue(r, t.key)))
      [] t.src = "header" -> Done(Stored(t, First(r.header, t.key)))
      [] t.src = "query" -> Done(Stored(t, First(URLQuery(r).named, t.key)))
      [] t.src = "form" -> Done(Stored(t, FormValue(r, t.key)))
      [] t.src = "cookie" -> IF t.key \in DOMAIN r.cookies
                             THEN Done(Stored(t, ListFirst(r.cookies[t.key])))
                             ELSE Failed(<<ErrNoCookie>>, Stored(t, <<>>))
      [] OTHER -> Done(cur)

\* FromRequest(r) on an extractor of type t that holds cur: Token reads its
\* header; httpx.FromPath, FromHeader, FromQuery and FromForm store the path
\* value, the header, the first query value and the form value of their name;
\* httpx.FromCookie stores its cookie, and fails when the request has none.
FromRequest(t, cur, r) ==
    CASE t.src = "path" -> Done(Stored(t, PathValue(r, t.key)))
      [] t.src = "header" -> Done(Stored(t, First(r.header, t.key)))
      [] t.src = "query" -> Done(Stored(t, First(URLQuery(r).named, t.key)))
      [] t.src = "form" -> Done(Stored(t, FormValue(r, t.key)))
      [] t.src = "cookie" -> IF t.key \in DOMAIN r.cookies
                             THEN Done(Stored(t, ListFirst(r.cookies[t.key])))
                             ELSE Failed(<<ErrNoCookie>>, cur)
      [] OTHER -> Done(cur)

\* The body of the loop of GenericBinder.Bind for a field f that implements
\* the extractor contract and holds cur.  A nil pointer is allocated and its
\* FromRequest called; any other field has its address taken, and the address
\* of a pointer field is a **T, which is not a RequestExtractor: the type
\* assertion panics.  Set and Interface panic on an unexported field.
ExtractField(f, cur, r) ==
    IF ~f.exported THEN Panicked(cur)
    ELSE IF f.type.kind = "ptr" /\ cur = VNil
    THEN Pointed(FromRequest(Elem(f.type), Zero(Elem(f.type)), r))
    ELSE IF f.type.kind = "ptr" THEN Panicked(cur)
    ELSE FromRequest(f.type, cur, r)

WithCache(res, cache) ==
    [err |-> res.err, val |-> res.val, panic |-> res.panic, cache |-> cache]

\* The loop of GenericBinder.Bind over the fields, from field i on;
\* genericChecked is its body after IsRequestExtractorType returned q, and
\* genericExtracted after FromRequest returned x.
RECURSIVE genericFields(_, _, _, _, _)
RECURSIVE genericChecked(_, _, _, _, _)
RECURSIVE genericExtracted(_, _, _, _, _, _)
genericFields(r, st, fields, i, cache) ==
    IF i > Len(st.fields) THEN WithCache(Done(fields), cache)
    ELSE genericChecked(r, st, fields, i, IsRequestExtractorType(cache, st.fields[i].type))

genericChecked(r, st, fields, i, q) ==
    IF ~q.result THEN genericFields(r, st, fields, i + 1, q.cache)
    ELSE genericExtracted(r, st, fields, i, q.cache, ExtractField(st.fields[i], fields[i], r))

genericExtracted(r, st, fields, i, cache, x) ==
    IF x.panic THEN WithCache(Panicked([fields EXCEPT ![i] = x.val]), cache)
    ELSE IF x.err # NoErr THEN WithCache(Failed(x.err, [fields EXCEPT ![i] = x.val]), cache)
    ELSE genericFields(r, st, [fields EXCEPT ![i] = x.val], i + 1, cache)

\* The struct type as reflection sees it through a value that was not passed
\* by pointer: no field can be set or addressed.
Unaddressable(st) ==
    [st EXCEPT !.fields = [i \in DOMAIN st.fields |-> [st.fields[i] EXCEPT !.exported = FALSE]]]

\* GenericBinder.Bind(r, a): nothing to do unless a is a struct or points to
\* one.
GenericBind(r, a, cache) ==
    IF a.isNil \/ a.kind # "struct" THEN WithCache(Done(a.fields), cache)
    ELSE IF ~a.isPtr THEN genericFields(r, Unaddressable(a.type), a.fields, 1, cache)
    ELSE genericFields(r, a.type, a.fields, 1, cache)

\* The fields on which the loop of GenericBinder.Bind calls FromRequest, in
\* the order of the calls, from field i on: a panic of Set, Addr or the type
\* assertion comes before the call, an error returned ends the loop after it.
RECURSIVE genericCalls(_, _, _, _)
genericCalls(r, st, fields, i) ==
    IF i > Len(st.fields) THEN <<>>
    ELSE IF ~isRequestExtractorType(st.fields[i].type) THEN genericCalls(r, st, fields, i + 1)
    ELSE IF ExtractField(st.fields[i], fields[i], r).panic THEN <<>>
    ELSE IF ExtractField(st.fields[i], fields[i], r).err # NoErr THEN <<i>>
    ELSE <<i>> \o genericCalls(r, st, fields, i + 1)

\* The calls of FromRequest that GenericBinder.Bind(r, a) makes.
GenericCalls(r, a) ==
    IF a.isNil \/ a.kind # "struct" THEN <<>>
    ELSE IF ~a.isPtr THEN genericCalls(r, Unaddressable(a.type), a.fields, 1)
    ELSE genericCalls(r, a.type, a.fields, 1)

\* What ShouldBind leaves: the outcome, the binders that ran, in order, and
\* the fields as the first of them left them.
Bound(res, ran, whole) ==
    [err |-> res.err, val |-> res.val, panic |-> res.panic, cache |-> res.cache,
     ran |-> ran, whole |-> whole]

\* ShouldBind after binder.Bind returned whole: its error is returned, else
\* the per-field pass runs.
BoundThenGeneric(r, e, cache, binder, whole) ==
    IF whole.panic \/ whole.err # NoErr
    THEN Bound(WithCache(whole, cache), <<binder>>, whole.val)
    ELSE Bound(GenericBind(r, [e EXCEPT !.fields = whole.val], cache),
               <<binder, "GenericBinder">>, whole.val)

\* ShouldBind(r, e)
ShouldBind(r, e, cache) ==
    BoundThenGeneric(r, e, cache, Default(r.method, r.contentType),
                     BindWith(Default(r.method, r.contentType), r, e))


\* ------------------------------------------------------------ binding inputs
MaxBindKeys == 1

\* httpx.FromQuery[UserName] and httpx.FromCookie[Sid], where
\* UserName.ValueName() is "user" and Sid.ValueName() is "sid".
FromQueryUser == Extractor("httpx.FromQuery[UserName]", "struct", "ptr", "query", "user")
FromCookieSid == Extractor("httpx.FromCookie[Sid]", "struct", "ptr", "cookie", "sid")

\* type Login struct { Name string `form:"name"`; Age int `form:"age"`; Token Token `form:"token"` }
Login == [name |-> "Login",
          fields |-> <<Field("Name", "name", Basic("string")),
                       Field("Age", "age", Basic("int")),
                       Field("Token", "token", Token)>>]

\* type Session struct { Backup *Token `form:"backup"`; User httpx.FromQuery[UserName] `form:"user"`;
\*                       Sid *httpx.FromCookie[Sid] }
Session == [name |-> "Session",
            fields |-> <<Field("Backup", "backup", PtrTo(Token)),
                         Field("User", "user", FromQueryUser),
                         Field("Sid", "", PtrTo(FromCookieSid))>>]

\* type Upload struct { File *multipart.FileHeader `form:"file"`;
\*                      Files []*multipart.FileHeader `form:"files"`; Title string `form:"title"` }
Upload == [name |-> "Upload",
           fields |-> <<Field("File", "file", fileHeaderType),
                        Field("Files", "files", fileHeaderSliceType),
                        Field("Title", "title", Basic("string"))>>]

BindStructs == {Login, Session, Upload}

BindLists == {Repeat(<<"a", "b", "c">>, 1), Repeat(<<"4", "2">>, 1), Repeat(<<>>, 1)}

\* The keys a request names for struct type st.
BindKeys(st) == {FormKey(st.fields[i]) : i \in DOMAIN st.fields}

ValuesOver(keys, maxKeys) ==
    UNION {[K -> BindLists] : K \in {S \in SUBSET keys : Cardinality(S) <= maxKeys}}

NamedValues(st, maxKeys) == ValuesOver(BindKeys(st), maxKeys)

WithBoundary == <<Sym(";"), Sym(" "), Tok("boundary"), Sym("="), Tok("x")>>

BindContentTypes ==
    {<<>>, MIMEJSON, XMLMIME, MIMEPOSTForm, MIMEMultipartForm,
     MIMEMultipartForm \o WithBoundary, UpperAll(MIMEMultipartForm) \o WithBoundary}

NoBody == [kind |-> "none", ok |-> TRUE, values |-> NoValues, files |-> <<>>, decoded |-> {}]

\* The names file parts can have for struct type st: the keys of its file
\* fields, and "file".
FileKeys(st) ==
    {"file"} \cup {FormKey(st.fields[i]) :
                     i \in {j \in DOMAIN st.fields :
                               st.fields[j].type \in {fileHeaderType, fileHeaderSliceType}}}

\* The file parts of a multipart body: none, or one or two files under one
\* name.
FileParts(st) ==
    {<<>>} \cup {[k \in {key} |-> fs] :
                   key \in FileKeys(st), fs \in {<<<<"f", "1">>>>, <<<<"f", "1">>, <<"f", "2">>>>}}

Bodies(st, maxKeys) ==
    {NoBody, [NoBody EXCEPT !.kind = "form", !.ok = FALSE],
     [NoBody EXCEPT !.kind = "multipart", !.ok = FALSE]}
    \cup {[NoBody EXCEPT !.kind = "form", !.values = [named |-> v, extra |-> 0]] :
             v \in NamedValues(st, maxKeys)}
    \cup {[NoBody EXCEPT !.kind = "multipart", !.values = [named |-> v, extra |-> 0], !.files = f] :
             v \in NamedValues(st, maxKeys), f \in FileParts(st)}
    \cup {[NoBody EXCEPT !.kind = kind, !.ok = ok, !.decoded = D] :
             kind \in {"json", "xml"}, ok \in BOOLEAN,
             D \in {S \in SUBSET {st.fields[i].name : i \in DOMAIN st.fields} :
                       Cardinality(S) <= maxKeys}}

Headers == {<<>>, [k \in {"X-Token"} |-> Repeat(<<"t", "o", "k">>, 1)]}
Cookies == {<<>>, [k \in {"sid"} |-> Repeat(<<"s", "1">>, 1)]}

Requests(st, maxKeys) ==
    {[method |-> method, contentType |-> ct, query |-> [named |-> q, extra |-> 0],
      header |-> h, cookies |-> c, body |-> b] :
        method \in {"GET", "POST", "DELETE"}, ct \in BindContentTypes,
        q \in NamedValues(st, maxKeys), h \in Headers, c \in Cookies,
        b \in Bodies(st, maxKeys)}

\* The outcome of a call without the cache it leaves.
Outcome(res) == [f \in DOMAIN res \ {"cache"} |-> res[f]]

\* ShouldBind(r, e) is called on a freshly allocated struct and returns or
\* panics.
ShouldBindCall ==
    /\ call.op = "pending" /\ call.fn = "ShouldBind"
    /\ call' = Returned("ShouldBind", call.in,
                        Outcome(ShouldBind(call.in.r, call.in.e, implCache)))
    /\ implCache' = ShouldBind(call.in.r, call.in.e, implCache).cache
    /\ UNCHANGED <<arrays, routers, routes, hist, last, stdJSONSerializer, goroutines>>

InitBind ==
    /\ arrays = <<>> /\ routers = <<>> /\ routes = <<>> /\ hist = <<>> /\ last = Idle
    /\ implCache = {}
    /\ stdJSONSerializer = Iface(StdJSONSerializer) /\ goroutines = <<>>
    /\ \E st \in BindStructs : \E r \in Requests(st, MaxBindKeys) :
          call = Pending("ShouldBind", [r |-> r, e |-> PtrToStruct(st, ZeroFields(st))])

NextBind == ShouldBindCall

SpecBind == InitBind /\ [][NextBind]_vars


\* ------------------------------------------------------------ form inputs
\* type Album struct { Cover *multipart.FileHeader `form:"-"`; Photos []*multipart.FileHeader;
\*                     Caption string `form:"caption"` }
Album == [name |-> "Album",
          fields |-> <<Field("Cover", "-", fileHeaderType),
                       Field("Photos", "", fileHeaderSliceType),
                       Field("Caption", "caption", Basic("string"))>>]

FormStructs == {Upload, Album}

\* A multipart content type with the media type written in another case.
MixedCaseMultipart == UpperAt(MIMEMultipartForm, 1) \o WithBoundary

\* The requests the form binder is given: what it reads of a request is the
\* method, the content type, the query and the body.
FormRequests(st, maxKeys) ==
    {[method |-> method, contentType |-> ct, query |-> [named |-> q, extra |-> 0],
      header |-> <<>>, cookies |-> <<>>, body |-> b] :
        method \in {"GET", "POST"}, ct \in BindContentTypes \cup {MixedCaseMultipart},
        q \in NamedValues(st, maxKeys), b \in Bodies(st, maxKeys)}

\* FormBinder.Bind(r, dest) is called and returns or panics.
FormBinderBind ==
    /\ call.op = "pending" /\ call.fn = "FormBinder.Bind"
    /\ call' = Returned("FormBinder.Bind", call.in, FormBind(call.in.r, call.in.dest))
    /\ UNCHANGED <<arrays, routers, routes, hist, last, implCache, stdJSONSerializer, goroutines>>

InitForm ==
    /\ arrays = <<>> /\ routers = <<>> /\ routes = <<>> /\ hist = <<>> /\ last = Idle
    /\ implCache = {}
    /\ stdJSONSerializer = Iface(StdJSONSerializer) /\ goroutines = <<>>
    /\ \E st \in FormStructs : \E r \in FormRequests(st, MaxBindKeys) :
          \E fields \in {ZeroFields(st), PresetFields(st)} :
             call = Pending("FormBinder.Bind", [r |-> r, dest |-> PtrToStruct(st, fields)])

NextForm == FormBinderBind

SpecForm == InitForm /\ [][NextForm]_vars

\* ------------------------------------------------------------ extraction inputs
\* httpx.FromPath[Id], httpx.FromHeader[Auth] and httpx.FromForm[Title], where
\* the ValueName() of Id, Auth and Title is "id", "X-Token" and "title".
FromPathId == Extractor("httpx.FromPath[Id]", "struct", "ptr", "path", "id")
FromHeaderAuth == Extractor("httpx.FromHeader[Auth]", "struct", "ptr", "header", "X-Token")
FromFormTitle == Extractor("httpx.FromForm[Title]", "struct", "ptr", "form", "title")

ValueExtractors == {FromPathId, FromHeaderAuth, FromQueryUser, FromFormTitle, FromCookieSid}

ExtractKeys == {"user", "title"}

PathValues == {<<>>, [k \in {"id"} |-> <<"4", "2">>]}

ExtractBodies ==
    {NoBody, [NoBody EXCEPT !.kind = "form", !.ok = FALSE]}
    \cup {[NoBody EXCEPT !.kind = kind, !.values = [named |-> v, extra |-> 0]] :
             kind \in {"form", "multipart"}, v \in ValuesOver({"title"}, 1)}

ExtractRequests ==
    {[method |-> method, contentType |-> ct, query |-> [named |-> q, extra |-> 0],
      header |-> h, cookies |-> c, path |-> pv, body |-> b] :
        method \in {"GET", "POST"},
        ct \in {<<>>, MIMEPOSTForm, MIMEMultipartForm \o WithBoundary},
        q \in ValuesOver(ExtractKeys, 1), h \in Headers, c \in Cookies,
        pv \in PathValues, b \in ExtractBodies}

\* extractor.FromRequest(r) is called on a value extractor and returns.
FromRequestCall ==
    /\ call.op = "pending" /\ call.fn = "FromRequest"
    /\ call' = Returned("FromRequest", call.in,
                        FromRequest(call.in.t, call.in.cur, call.in.r))
    /\ UNCHANGED <<arrays, routers, routes, hist, last, implCache, stdJSONSerializer, goroutines>>

InitExtract ==
    /\ arrays = <<>> /\ routers = <<>> /\ routes = <<>> /\ hist = <<>> /\ last = Idle
    /\ implCache = {}
    /\ stdJSONSerializer = Iface(StdJSONSerializer) /\ goroutines = <<>>
    /\ \E t \in ValueExtractors : \E cur \in {Zero(t), Preset(t)} :
          \E r \in ExtractRequests :
             call = Pending("FromRequest", [t |-> t, cur |-> cur, r |-> r])

NextExtract == FromRequestCall

SpecExtract == InitExtract /\ [][NextExtract]_vars

\* ------------------------------------------------------------ generic binder inputs
\* type Visit struct { Sid httpx.FromCookie[Sid]; User httpx.FromQuery[UserName];
\*                     Id *httpx.FromPath[Id]; Note string }
Visit == [name |-> "Visit",
          fields |-> <<Field("Sid", "", FromCookieSid),
                       Field("User", "", FromQueryUser),
                       Field("Id", "", PtrTo(FromPathId)),
                       Field("Note", "", Basic("string"))>>]

GenericStructs == {Visit, Session, Login}

\* Fields that hold earlier values, with the pointers among them nil.
PresetValueFields(st) ==
    [i \in DOMAIN st.fields |->
        IF st.fields[i].type.kind = "ptr" THEN VNil ELSE Preset(st.fields[i].type)]

\* The destinations: pointers to structs that are fresh, that hold earlier
\* values, or both; a Visit passed by value; and values that are no struct.
GenericDests ==
    UNION {{PtrToStruct(st, ZeroFields(st)), PtrToStruct(st, PresetFields(st)),
            PtrToStruct(st, PresetValueFields(st))} : st \in GenericStructs}
    \cup {[PtrToStruct(Visit, ZeroFields(Visit)) EXCEPT !.isPtr = FALSE]}
    \cup OtherDests

\* GenericBinder.Bind(r, a) is called and returns or panics.
GenericBinderBind ==
    /\ call.op = "pending" /\ call.fn = "GenericBinder.Bind"
    /\ call' = Returned("GenericBinder.Bind", call.in,
                        [err |-> GenericBind(call.in.r, call.in.a, implCache).err,
                         val |-> GenericBind(call.in.r, call.in.a, implCache).val,
                         panic |-> GenericBind(call.in.r, call.in.a, implCache).panic,
                         calls |-> GenericCalls(call.in.r, call.in.a)])
    /\ implCache' = GenericBind(call.in.r, call.in.a, implCache).cache
    /\ UNCHANGED <<arrays, routers, routes, hist, last, stdJSONSerializer, goroutines>>

InitGeneric ==
    /\ arrays = <<>> /\ routers = <<>> /\ routes = <<>> /\ hist = <<>> /\ last = Idle
    /\ implCache = {}
    /\ stdJSONSerializer = Iface(StdJSONSerializer) /\ goroutines = <<>>
    /\ \E a \in GenericDests : \E r \in ExtractRequests :
          call = Pending("GenericBinder.Bind", [r |-> r, a |-> a])

NextGeneric == GenericBinderBind

SpecGeneric == InitGeneric /\ [][NextGeneric]_vars

\* ------------------------------------------------------------ typed handlers
\* A Request type parameter: a struct type or an extractor type, or a pointer
\* to one.
RequestType(isPointer, elem) == [isPointer |-> isPointer, elem |-> elem]

IsStructType(t) == "fields" \in DOMAIN t

\* reflect.TypeFor[Request]()
TypeFor(rt) ==
    IF IsStructType(rt.elem)
    THEN IF rt.isPointer THEN PtrTo(Named(rt.elem.name, "struct")) ELSE Named(rt.elem.name, "struct")
    ELSE IF rt.isPointer THEN PtrTo(rt.elem) ELSE rt.elem

\* What the business function h does when called: it returns a response and
\* a nil error ("ok"), an empty string and a nil error ("empty"), a response
\* no encoder accepts ("unencodable"), a nil renderer ("nil"), or an error
\* ("err").
ErrBusiness == <<"business">>
ErrEncode == <<"unsupported type">>

\* The handler a route holds: the adapter that made it, its type parameters,
\* and what the business function does.
TypedHandler(adapter, request, response, respond) ==
    [adapter |-> adapter, request |-> request, response |-> response, respond |-> respond]

\* The string h returns with a nil error when its Response is a string.
Reply(h) == IF h.respond = "empty" THEN "" ELSE "hello"

\* The Data of the renderer the closure returns: for String() the response
\* of h read as a string, *(*string)(unsafe.Pointer(&resp)).
Data(h) == IF h.adapter = "String" THEN Reply(h) ELSE h.respond

\* The test of String() with defined string types passing it.
IsStringByKind(response) == response \in {"string", "Name"}

\* any((*Response)(nil)).(*string): *Response is *string only when Response
\* is string itself.
IsString(response) == response = "string"

\* The ResponseRender each adapter's closure returns for the response of h.
Renderer(h) ==
    CASE h.adapter = "JSON" -> "JSONResponse"
      [] h.adapter = "XML" -> "XMLResponse"
      [] h.adapter = "String" -> "StringResponse"
      [] OTHER -> IF h.respond = "nil" THEN "nil" ELSE "HTMLResponse"

\* cmp.Or(statusCode, http.StatusOK)
StatusOr(statusCode, default) == IF statusCode # 0 THEN statusCode ELSE default

\* The Content-Type each renderer sets.
ContentTypeOf(resp) ==
    CASE resp = "JSONResponse" -> "application/json"
      [] resp = "XMLResponse" -> "application/xml"
      [] resp = "StringResponse" -> "text/plain"
      [] OTHER -> "text/html"

\* A renderer that sends the status before it sets the Content-Type.
IntoResponseStatusFirst(resp, statusCode, data, w) ==
    IF data = "unencodable" /\ resp # "StringResponse"
    THEN [err |-> ErrEncode,
          w |-> SetHeader(WriteHeader(w, StatusOr(statusCode, 200)),
                          "Content-Type", ContentTypeOf(resp))]
    ELSE [err |-> NoErr,
          w |-> Write(SetHeader(WriteHeader(w, StatusOr(statusCode, 200)),
                                "Content-Type", ContentTypeOf(resp)),
                      IF resp = "StringResponse" THEN data ELSE resp)]

\* resp.IntoResponse(w) for a renderer with the given StatusCode: the content
\* type, the status, then the encoded data, which for a StringResponse is
\* the string itself; the encoder's error is returned after the header went
\* out.
IntoResponseWith(resp, statusCode, data, w) ==
    IF data = "unencodable" /\ resp # "StringResponse"
    THEN [err |-> ErrEncode,
          w |-> WriteHeader(SetHeader(w, "Content-Type", ContentTypeOf(resp)),
                            StatusOr(statusCode, 200))]
    ELSE [err |-> NoErr,
          w |-> Write(WriteHeader(SetHeader(w, "Content-Type", ContentTypeOf(resp)),
                                  StatusOr(statusCode, 200)),
                      IF resp = "StringResponse" THEN data ELSE resp)]

\* resp.IntoResponse(w) for the renderer an adapter builds, which leaves
\* StatusCode unset.
IntoResponse(resp, data, w) == IntoResponseWith(resp, 0, data, w)

\* What running the handler of a route gives: the steps taken, the error
\* returned, the response written, and whether it panicked instead.
Ran(trace, err, w, panic, cache) ==
    [trace |-> trace, err |-> err, w |-> w, panic |-> panic, cache |-> cache]

Responded(trace, out, cache) == Ran(trace, out.err, out.w, FALSE, cache)

\* h.call(w, r, req): the closure of the adapter calls h and wraps its
\* response; an error of h is returned, else the response is rendered.
\* IntoResponse on a nil renderer panics.
call_(h, w, trace, cache) ==
    IF h.respond = "err" THEN Ran(trace \o <<"h">>, ErrBusiness, w, FALSE, cache)
    ELSE IF Renderer(h) = "nil" THEN Ran(trace \o <<"h">>, NoErr, w, TRUE, cache)
    ELSE Responded(trace \o <<"h", "IntoResponse">>, IntoResponse(Renderer(h), Data(h), w), cache)

\* asHandlerFunc: extraction when the Request type implements the extractor
\* contract, binding otherwise.
asHandlerFunc(h, cache) ==
    [mode |-> IF IsRequestExtractorType(cache, TypeFor(h.request)).result
              THEN "extractAndHandle" ELSE "bindAndHandle",
     cache |-> IsRequestExtractorType(cache, TypeFor(h.request)).cache]

\* Mutant: one request value per handler, which the next request finds as
\* the previous one left it.
newRequestShared(rt) ==
    LET fresh == IF IsStructType(rt.elem) THEN PtrToStruct(rt.elem, ZeroFields(rt.elem))
                 ELSE [isPtr |-> TRUE, isNil |-> FALSE, kind |-> rt.elem.kind,
                       type |-> rt.elem, fields |-> <<Zero(rt.elem)>>]
    IN  IF last.op = "request" THEN [fresh EXCEPT !.fields = last.bound] ELSE fresh

\* newRequest() and the bind target: a pointer to a zero Request, or the
\* freshly allocated Request itself when Request is a pointer type.
newRequest(rt) ==
    IF IsStructType(rt.elem) THEN PtrToStruct(rt.elem, ZeroFields(rt.elem))
    ELSE [isPtr |-> TRUE, isNil |-> FALSE, kind |-> rt.elem.kind, type |-> rt.elem,
          fields |-> <<Zero(rt.elem)>>]

\* extractAndHandle's extractFunc: target.(httpx.RequestExtractor).FromRequest(r)
extractAndHandle(target, r, cache) ==
    WithCache(FromRequest(target.type, target.fields[1], r), cache)
        @@ [ran |-> <<"FromRequest">>]

\* bindAndHandle's extractFunc: ShouldBind(r, target)
bindAndHandle(target, r, cache) == ShouldBind(r, target, cache)

extractFunc(mode, target, r, cache) ==
    IF mode = "extractAndHandle" THEN extractAndHandle(target, r, cache)
    ELSE bindAndHandle(target, r, cache)

\* Mutant: the business function is called whatever extractFunc returned.
createHandlerIgnoringError(h, mode, x, w) ==
    IF x.panic THEN Ran(<<mode>>, NoErr, w, TRUE, x.cache)
    ELSE call_(h, w, <<mode>>, x.cache)

\* The HandlerFunc createHandler returns, after extractFunc returned x.
createHandler(h, mode, x, w) ==
    IF x.panic THEN Ran(<<mode>>, NoErr, w, TRUE, x.cache)
    ELSE IF x.err # NoErr THEN Ran(<<mode>>, x.err, w, FALSE, x.cache)
    ELSE call_(h, w, <<mode>>, x.cache)

\* The handler on request r.
ServeTypedHandler(h, mode, r, w, cache) ==
    createHandler(h, mode, extractFunc(mode, newRequest(h.request), r, cache), w)

\* History only: the request value the closure allocated, what extractFunc
\* ran on it and what it left in it, and whether the request before left
\* anything in its own.
RequestRecord(mode, target, x) ==
    [op |-> "request", target |-> target, ran |-> x.ran,
     bound |-> IF mode = "extractAndHandle" THEN <<x.val>> ELSE x.val,
     afterBound |-> last.op = "request" /\ last.bound # last.target.fields]

\* The route closure around it; a panic leaves the closure before the error
\* check.
ServeTypedRoute(res, cb) ==
    IF res.panic THEN res @@ [errCalls |-> <<>>] ELSE ServeRoute(res, cb)

\* ---------------------------------------------------- typed handler inputs
Adapters == {"JSON", "XML", "String", "Render"}

RequestTypes ==
    {RequestType(p, t) : p \in BOOLEAN, t \in {Login, Session, Token, FromCookieSid}}

\* The Response type parameter and what h does, for each adapter; Name is
\* type Name string.
Responses(adapter) ==
    CASE adapter = "Render" -> {"httpx.ResponseRender"} \X {"ok", "nil", "err"}
      [] adapter = "String" -> ({"string"} \X {"ok", "empty", "err"})
                               \cup {<<"Profile", "ok">>, <<"Name", "ok">>}
      [] OTHER -> {"Profile"} \X {"ok", "unencodable", "err"}

TypedHandlers ==
    UNION {{TypedHandler(a, rt, p[1], p[2]) : rt \in RequestTypes, p \in Responses(a)} :
             a \in Adapters}

RequestKeys(rt) == IF IsStructType(rt.elem) THEN BindKeys(rt.elem) ELSE {rt.elem.key}

TypedRequests(rt, maxKeys) ==
    {[method |-> method, contentType |-> ct, query |-> [named |-> q, extra |-> 0],
      header |-> h, cookies |-> c, body |-> b] :
        method \in {"GET", "POST"}, ct \in {<<>>, MIMEJSON},
        q \in ValuesOver(RequestKeys(rt), maxKeys), h \in Headers, c \in Cookies,
        b \in {NoBody, [NoBody EXCEPT !.kind = "json"],
               [NoBody EXCEPT !.kind = "json", !.ok = FALSE]}}

\* h.JSON(), h.XML(), h.String() or Render(h) is called and the handler it
\* returns is registered on a router and meets a request.  String() panics
\* unless Response is string.
Adapt ==
    /\ call.op = "pending" /\ call.fn = "adapter"
    /\ IF call.in.adapter = "String" /\ ~IsString(call.in.response)
       THEN /\ call' = Returned("adapter", call.in, [panic |-> TRUE])
            /\ UNCHANGED implCache
       ELSE /\ \E r \in TypedRequests(call.in.request, MaxBindKeys) :
                 \E cb \in {DefaultErrHandler, "custom1"} :
                    call' = Pending("serve", [h |-> call.in, r |-> r, cb |-> cb,
                                              mode |-> asHandlerFunc(call.in, implCache).mode])
            /\ implCache' = asHandlerFunc(call.in, implCache).cache
    /\ UNCHANGED <<arrays, routers, routes, hist, last, stdJSONSerializer, goroutines>>

\* The mux calls the route's closure with the request.
ServeTyped ==
    /\ call.op = "pending" /\ call.fn = "serve"
    /\ call' = Returned("serve", call.in,
                        Outcome(ServeTypedRoute(
                            ServeTypedHandler(call.in.h, call.in.mode, call.in.r,
                                              NewRecorder, implCache), call.in.cb)))
    /\ implCache' = ServeTypedHandler(call.in.h, call.in.mode, call.in.r,
                                      NewRecorder, implCache).cache
    /\ last' = RequestRecord(call.in.mode, newRequest(call.in.h.request),
                             extractFunc(call.in.mode, newRequest(call.in.h.request),
                                         call.in.r, implCache))
    /\ UNCHANGED <<arrays, routers, routes, hist, stdJSONSerializer, goroutines>>

InitTyped ==
    /\ arrays = <<>> /\ routers = <<>> /\ routes = <<>> /\ hist = <<>> /\ last = Idle
    /\ implCache = {}
    /\ stdJSONSerializer = Iface(StdJSONSerializer) /\ goroutines = <<>>
    /\ \E h \in TypedHandlers : call = Pending("adapter", h)

NextTyped == Adapt \/ ServeTyped

SpecTyped == InitTyped /\ [][NextTyped]_vars

\* The mux calls the same closure with the next request.
ServeNext ==
    /\ call.op = "returned" /\ call.fn = "serve"
    /\ \E r \in TypedRequests(call.in.h.request, MaxBindKeys) :
          call' = Pending("serve", [call.in EXCEPT !.r = r])
    /\ UNCHANGED <<arrays, routers, routes, hist, last, implCache, stdJSONSerializer, goroutines>>

\* One handler made by JSON() serving request after request.
InitRequests ==
    /\ arrays = <<>> /\ routers = <<>> /\ routes = <<>> /\ hist = <<>> /\ last = Idle
    /\ implCache = {}
    /\ stdJSONSerializer = Iface(StdJSONSerializer) /\ goroutines = <<>>
    /\ \E p \in BOOLEAN : \E t \in {Login, Token} : \E respond \in {"ok", "err"} :
          call = Pending("adapter", TypedHandler("JSON", RequestType(p, t), "Profile", respond))

NextRequests == Adapt \/ ServeTyped \/ ServeNext

SpecRequests == InitRequests /\ [][NextRequests]_vars

\* ------------------------------------------------------------ renderers
Renderers == {"JSONResponse", "XMLResponse", "StringResponse", "HTMLResponse"}

\* The StatusCode field of a renderer: unset, or a status.
StatusCodes == {0, 200, 201, 404}

\* The Data of a renderer: a string for StringResponse, and for the others
\* a value the encoder or the template accepts or not.
RenderData(resp) ==
    IF resp = "StringResponse" THEN {"hello", ""} ELSE {"ok", "unencodable"}

\* The writer as the handler finds it: untouched, with a header set by a
\* middleware, or with a Content-Type set by a middleware.
Writers ==
    {NewRecorder, SetHeader(NewRecorder, "X-Request-Id", "1"),
     SetHeader(NewRecorder, "Content-Type", "application/octet-stream")}

\* resp.IntoResponse(w) is called on a built-in renderer.
IntoResponseCall ==
    /\ call.op = "pending" /\ call.fn = "IntoResponse"
    /\ call' = Returned("IntoResponse", call.in,
                        IntoResponseWith(call.in.resp, call.in.statusCode,
                                         call.in.data, call.in.w))
    /\ UNCHANGED <<arrays, routers, routes, hist, last, implCache, stdJSONSerializer, goroutines>>

\* The closure of h.JSON(), h.XML() or h.String() is called with a bound
\* request value: requestHandler.call.
AdapterCall ==
    /\ call.op = "pending" /\ call.fn = "requestHandler.call"
    /\ call' = Returned("requestHandler.call", call.in,
                        Outcome(call_(call.in.h, call.in.w, <<>>, implCache)))
    /\ UNCHANGED <<arrays, routers, routes, hist, last, implCache, stdJSONSerializer, goroutines>>

InitRender ==
    /\ arrays = <<>> /\ routers = <<>> /\ routes = <<>> /\ hist = <<>> /\ last = Idle
    /\ implCache = {}
    /\ stdJSONSerializer = Iface(StdJSONSerializer) /\ goroutines = <<>>
    /\ \E w \in Writers :
          \/ \E resp \in Renderers : \E statusCode \in StatusCodes :
                \E data \in RenderData(resp) :
                   call = Pending("IntoResponse", [resp |-> resp, statusCode |-> statusCode,
                                                   data |-> data, w |-> w])
          \/ \E h \in {x \in TypedHandlers : x.adapter # "String" \/ IsString(x.response)} :
                call = Pending("requestHandler.call", [h |-> h, w |-> w])

NextRender == IntoResponseCall \/ AdapterCall

SpecRender == InitRender /\ [][NextRender]_vars

\* ------------------------------------------------------------ serializer
\* A serializer of the application, and a nil *Jsoniter in the interface.
Jsoniter == "Jsoniter"
TypedNil(s) == [tab |-> s, data |-> "nil"]

\* serializer.SetJSONSerializer(s) storing whatever it is given.
SetJSONSerializerUnchecked(held, s) == [panic |-> FALSE, held |-> s]

\* serializer.SetJSONSerializer(s) while the variable holds held: a nil
\* interface panics before the assignment.
SetJSONSerializer(held, s) ==
    IF s = NilIface THEN [panic |-> TRUE, held |-> held] ELSE [panic |-> FALSE, held |-> s]

\* serializer.JSONSerializer()
JSONSerializer(held) == held

\* The codec that does the work when serializer s is asked: encoding/json
\* for the standard one, its own for another.
Codec(s) == IF s.tab = StdJSONSerializer THEN "encoding/json" ELSE s.tab

\* s.Deserialize(r.Body, a): the codec of s decodes the document; a method
\* of a nil pointer fails on its first field access.
Deserialize(s, body, a) ==
    IF s.data = "nil" THEN Panicked(a.fields) @@ [codec |-> Codec(s)]
    ELSE Decode("json", body, a) @@ [codec |-> Codec(s)]

\* JSONBinder.Bind(r, a) with the serializer the variable holds.
JSONBinderBind(held, r, a) == Deserialize(JSONSerializer(held), r.body, a)

\* The codec a renderer encodes with: JSONResponse calls json.NewEncoder and
\* XMLResponse xml.NewEncoder; the others encode nothing.
Encoder(resp) ==
    CASE resp = "JSONResponse" -> "encoding/json"
      [] resp = "XMLResponse" -> "encoding/xml"
      [] OTHER -> "none"

SerializerArgs == {NilIface, Iface(StdJSONSerializer), Iface(Jsoniter), TypedNil(Jsoniter)}

\* Request bodies: JSON documents, well formed or not, naming some fields;
\* an XML document; no body.
JSONBodies ==
    {[NoBody EXCEPT !.kind = "json", !.ok = ok, !.decoded = D] :
        ok \in BOOLEAN, D \in {{}, {"Name"}, {"Name", "Age"}}}
    \cup {NoBody, [NoBody EXCEPT !.kind = "xml"]}

\* The destinations handed to the JSON binder.
JSONDests ==
    UNION {{PtrToStruct(st, ZeroFields(st)), PtrToStruct(st, PresetFields(st))} :
             st \in {Profile, Login}}
    \cup OtherDests

\* hx.SetJSONSerializer(s) is called and returns or panics.
SetJSONSerializerCall ==
    /\ \E s \in SerializerArgs :
          /\ call' = Returned("SetJSONSerializer", [s |-> s],
                              [panic |-> SetJSONSerializer(stdJSONSerializer, s).panic])
          /\ stdJSONSerializer' = SetJSONSerializer(stdJSONSerializer, s).held
    /\ UNCHANGED <<arrays, routers, routes, hist, last, implCache, goroutines>>

\* serializer.JSONSerializer() is called.
JSONSerializerCall ==
    /\ call' = Returned("JSONSerializer", <<>>, [s |-> JSONSerializer(stdJSONSerializer)])
    /\ UNCHANGED <<arrays, routers, routes, hist, last, implCache, stdJSONSerializer, goroutines>>

\* JSONBinder.Bind(r, a) is called on a request with a JSON body.
JSONBinderBindCall ==
    /\ \E body \in JSONBodies : \E a \in JSONDests :
          call' = Returned("JSONBinder.Bind", [body |-> body, a |-> a],
                           JSONBinderBind(stdJSONSerializer, [body |-> body], a))
    /\ UNCHANGED <<arrays, routers, routes, hist, last, implCache, stdJSONSerializer, goroutines>>

\* JSONResponse{Data: data}.IntoResponse(w) is called by a handler.
JSONResponseCall ==
    /\ \E data \in {"ok", "unencodable"} :
          call' = Returned("JSONResponse.IntoResponse", [data |-> data],
                           IntoResponse("JSONResponse", data, NewRecorder)
                              @@ [codec |-> Encoder("JSONResponse")])
    /\ UNCHANGED <<arrays, routers, routes, hist, last, implCache, stdJSONSerializer, goroutines>>

\* The closure of h.JSON() is called with a bound request value.
JSONAdapterCall ==
    /\ \E respond \in {"ok", "unencodable", "err"} :
          LET h == TypedHandler("JSON", RequestType(FALSE, Login), "Profile", respond)
          IN  call' = Returned("JSON", [h |-> h],
                               Outcome(call_(h, NewRecorder, <<>>, implCache))
                                  @@ [codec |-> IF respond = "err" THEN "none"
                                                ELSE Encoder(Renderer(h))])
    /\ UNCHANGED <<arrays, routers, routes, hist, last, implCache, stdJSONSerializer, goroutines>>

NextSerializer ==
    \/ SetJSONSerializerCall
    \/ JSONSerializerCall
    \/ JSONBinderBindCall
    \/ JSONResponseCall
    \/ JSONAdapterCall

SpecSerializer == InitRouter /\ [][NextSerializer]_vars

\* ------------------------------------------------- serializer, concurrently
\* Goroutines that run at once: request goroutines whose JSONBinder.Bind
\* calls JSONSerializer(), and callers of SetJSONSerializer.  Nothing in the
\* code orders them (no mutex, no atomic, no channel), so a step is one
\* memory access: an interface value is stored and loaded a word at a time.
MaxGoroutines == 2

\* go SetJSONSerializer(s)
Setter(s) == [fn |-> "SetJSONSerializer", pc |-> "test", s |-> s, got |-> NilIface]

\* go JSONBinder.Bind(r, a), up to the return of JSONSerializer()
Reader == [fn |-> "JSONSerializer", pc |-> "load tab", s |-> NilIface, got |-> NilIface]

Programs == {Setter(s) : s \in SerializerArgs} \cup {Reader}

\* SetJSONSerializer: if s == nil { panic(...) }
SetTest(g) ==
    /\ goroutines[g].pc = "test"
    /\ goroutines' = [goroutines EXCEPT
                         ![g].pc = IF goroutines[g].s = NilIface THEN "panicked" ELSE "store tab"]
    /\ UNCHANGED <<arrays, routers, routes, hist, last, call, implCache, stdJSONSerializer>>

\* stdJSONSerializer = s, first word
StoreTab(g) ==
    /\ goroutines[g].pc = "store tab"
    /\ stdJSONSerializer' = [stdJSONSerializer EXCEPT !.tab = goroutines[g].s.tab]
    /\ goroutines' = [goroutines EXCEPT ![g].pc = "store data"]
    /\ UNCHANGED <<arrays, routers, routes, hist, last, call, implCache>>

\* stdJSONSerializer = s, second word, and the return
StoreData(g) ==
    /\ goroutines[g].pc = "store data"
    /\ stdJSONSerializer' = [stdJSONSerializer EXCEPT !.data = goroutines[g].s.data]
    /\ goroutines' = [goroutines EXCEPT ![g].pc = "done"]
    /\ UNCHANGED <<arrays, routers, routes, hist, last, call, implCache>>

\* return stdJSONSerializer, first word
LoadTab(g) ==
    /\ goroutines[g].pc = "load tab"
    /\ goroutines' = [goroutines EXCEPT ![g].pc = "load data",
                                         ![g].got.tab = stdJSONSerializer.tab]
    /\ UNCHANGED <<arrays, routers, routes, hist, last, call, implCache, stdJSONSerializer>>

\* return stdJSONSerializer, second word, and the return
LoadData(g) ==
    /\ goroutines[g].pc = "load data"
    /\ goroutines' = [goroutines EXCEPT ![g].pc = "done",
                                         ![g].got.data = stdJSONSerializer.data]
    /\ UNCHANGED <<arrays, routers, routes, hist, last, call, implCache, stdJSONSerializer>>

InitRace ==
    /\ arrays = <<>> /\ routers = <<>> /\ routes = <<>> /\ hist = <<>> /\ last = Idle
    /\ call = NoCall
    /\ implCache = {}
    /\ stdJSONSerializer = Iface(StdJSONSerializer)
    /\ goroutines \in [1..MaxGoroutines -> Programs]

NextRace ==
    \/ \E g \in DOMAIN goroutines : SetTest(g)
    \/ \E g \in DOMAIN goroutines : StoreTab(g)
    \/ \E g \in DOMAIN goroutines : StoreData(g)
    \/ \E g \in DOMAIN goroutines : LoadTab(g)
    \/ \E g \in DOMAIN goroutines : LoadData(g)

SpecRace == InitRace /\ [][NextRace]_vars

\* ------------------------------------------------------- joinPath inputs
MaxPathLen == 3

\* The strings joinPath is given: any string is a legal argument.
PathStrings == SeqsUpTo({Slash, "x"}, MaxPathLen)

\* joinPath(a, b) is called and returns.
JoinPathCall ==
    /\ call.op = "pending" /\ call.fn = "joinPath"
    /\ call' = Returned("joinPath", call.in, joinPath(call.in.a, call.in.b))
    /\ UNCHANGED <<arrays, routers, routes, hist, last, implCache, stdJSONSerializer, goroutines>>

InitJoin ==
    /\ arrays = <<>> /\ routers = <<>> /\ routes = <<>> /\ hist = <<>> /\ last = Idle
    /\ implCache = {}
    /\ stdJSONSerializer = Iface(StdJSONSerializer) /\ goroutines = <<>>
    /\ \E a \in PathStrings : \E b \in PathStrings :
          call = Pending("joinPath", [a |-> a, b |-> b])

NextJoin == JoinPathCall

SpecJoin == InitJoin /\ [][NextJoin]_vars

\* --------------------------------------- the extractor cache, concurrently
\* implementsRequestExtractorTypeMap is a sync.Map: Load and Store are atomic
\* each, and IsRequestExtractorType calls one, then the other.
MaxCalls == 2

\* Mutant: a map that answers with any entry it holds.
LoadAny(m, t) ==
    IF m # {} THEN [value |-> (CHOOSE e \in m : TRUE).impl, exists |-> TRUE]
    ELSE [value |-> FALSE, exists |-> FALSE]

\* implementsRequestExtractorTypeMap.Load(t)
Load(m, t) ==
    IF \E e \in m : e.t = t
    THEN [value |-> (CHOOSE e \in m : e.t = t).impl, exists |-> TRUE]
    ELSE [value |-> FALSE, exists |-> FALSE]

\* implementsRequestExtractorTypeMap.Store(t, result)
Store(m, t, result) == {e \in m : e.t # t} \cup {[t |-> t, impl |-> result]}

\* The types the goroutines ask about: Token has FromRequest on *Token.
CacheTypes == {Token, PtrTo(Token), Basic("string"), PtrTo(PtrTo(Token))}

\* go IsRequestExtractorType(t); stores is the history of the Store calls the
\* goroutine made.
Caller(t, calls, stores) ==
    [fn |-> "IsRequestExtractorType", pc |-> "Load", s |-> t, got |-> FALSE,
     calls |-> calls, stores |-> stores]

\* if value, exists := Load(t); exists { return value.(bool) }
\* result := isRequestExtractorType(t)
CacheLoad(g) ==
    /\ goroutines[g].pc = "Load"
    /\ goroutines' =
          [goroutines EXCEPT ![g].pc = IF Load(implCache, goroutines[g].s).exists
                                       THEN "return" ELSE "Store",
                             ![g].got = IF Load(implCache, goroutines[g].s).exists
                                        THEN Load(implCache, goroutines[g].s).value
                                        ELSE isRequestExtractorType(goroutines[g].s)]
    /\ UNCHANGED <<arrays, routers, routes, hist, last, call, implCache, stdJSONSerializer>>

\* Store(t, result); return result
CacheStore(g) ==
    /\ goroutines[g].pc = "Store"
    /\ implCache' = Store(implCache, goroutines[g].s, goroutines[g].got)
    /\ goroutines' = [goroutines EXCEPT ![g].pc = "return",
                                        ![g].stores = Append(@, goroutines[g].s)]
    /\ UNCHANGED <<arrays, routers, routes, hist, last, call, stdJSONSerializer>>

\* The goroutine goes on to its next call.
CacheNext(g, t) ==
    /\ goroutines[g].pc = "return"
    /\ goroutines[g].calls < MaxCalls
    /\ goroutines' = [goroutines EXCEPT ![g] = Caller(t, goroutines[g].calls + 1,
                                                     goroutines[g].stores)]
    /\ UNCHANGED <<arrays, routers, routes, hist, last, call, implCache, stdJSONSerializer>>

InitCache ==
    /\ arrays = <<>> /\ routers = <<>> /\ routes = <<>> /\ hist = <<>> /\ last = Idle
    /\ call = NoCall
    /\ implCache = {}
    /\ stdJSONSerializer = Iface(StdJSONSerializer)
    /\ goroutines \in [1..MaxGoroutines -> {Caller(t, 1, <<>>) : t \in CacheTypes}]

NextCache ==
    \/ \E g \in DOMAIN goroutines : CacheLoad(g)
    \/ \E g \in DOMAIN goroutines : CacheStore(g)
    \/ \E g \in DOMAIN goroutines, t \in CacheTypes : CacheNext(g, t)

SpecCache == InitCache /\ [][NextCache]_vars

\* ----------------------------------------------------------------- claims

IsPrefix(a, b) == Len(a) <= Len(b) /\ SubSeq(b, 1, Len(a)) = a

Min(S) == CHOOSE x \in S : \A y \in S : x <= y

RECURSIVE Ancestors(_)
Ancestors(i) ==
    IF hist[i].parent = 0 THEN {}
    ELSE {hist[i].parent} \cup Ancestors(hist[i].parent)

\* The middleware the registering router showed when route rt was registered,
\* by the history: what it inherited, then what Use had given it by then.
ListAtRegistration(rt) ==
    hist[rt.router].inherited \o SubSeq(hist[rt.router].own, 1, rt.ownLen)

\* Middleware m was given to router g and to no other router.
OnlyOn(m, g) ==
    /\ m \in Range(hist[g].own)
    /\ \A x \in DOMAIN routers \ {g} : m \notin Range(hist[x].own)

\* C4: on each dispatched request the error callback of the registering router
\* is invoked exactly once, with the error the wrapped handler returned, when
\* that error is non-nil, and not at all when it is nil; a callback given with
\* WithErrorHandler replaces the default one, which answers 500 with the error
\* text.
C4_ErrorCallback ==
    /\ \A i \in DOMAIN routers :
          hist[i].parent = 0 =>
             routers[i].ErrHandler =
                IF hist[i].cbs = <<>> THEN DefaultErrHandler
                ELSE hist[i].cbs[Len(hist[i].cbs)]
    /\ last.op = "Dispatch" =>
          LET cb == routers[routes[last.route].router].ErrHandler
          IN  /\ last.err # NoErr => last.errCalls = <<[cb |-> cb, err |-> last.err]>>
              /\ last.err = NoErr => last.errCalls = <<>>
              /\ (last.err # NoErr /\ cb = DefaultErrHandler) =>
                    /\ last.w.status = 500
                    /\ last.w.body = <<last.err>>
              /\ (last.err # NoErr /\ cb # DefaultErrHandler) =>
                    /\ last.w.status # 500
                    /\ last.w.body = <<cb>>

\* C4 witness: a handler error reached a custom callback given to New after
\* another one, on a route whose middleware passed the error through.
C4_Witness ==
    /\ last.op = "Dispatch"
    /\ last.err = <<"oops">>
    /\ Len(last.trace) >= 2
    /\ hist[1].cbs = <<"custom1", "custom2">>
    /\ last.errCalls = <<[cb |-> "custom2", err |-> <<"oops">>]>>

\* C5: every router's middleware list is what it inherited when it was created
\* followed by what Use gave to that router itself, so a Use on a group changes
\* no other router's list; a route is wrapped by everything Use had given its
\* router before the registration, and by no middleware given only to a group
\* the registering router is outside of.
C5_UseIsLocal ==
    /\ \A i \in DOMAIN routers : MwList(i) = hist[i].inherited \o hist[i].own
    /\ \A k \in DOMAIN routes :
          LET rt == routes[k]
              r  == rt.router
          IN  /\ \A j \in 1..rt.ownLen :
                    hist[r].own[j] \in Range(rt.handler.wraps)
              /\ \A g \in DOMAIN routers :
                    (g # r /\ g \notin Ancestors(r)) =>
                       \A m \in Middlewares :
                          OnlyOn(m, g) => m \notin Range(rt.handler.wraps)

\* C5 witness: a group got a middleware by Use that no other router was given,
\* its parent has a route, and a sibling group exists.
C5_Witness ==
    \E k \in DOMAIN routes, g \in DOMAIN routers, s \in DOMAIN routers :
        /\ hist[g].parent = routes[k].router
        /\ hist[s].parent = routes[k].router
        /\ s # g
        /\ \E m \in Middlewares : OnlyOn(m, g)
        /\ hist[routes[k].router].own # <<>>

\* C6: a group inherits the parent's list as it is at the Group call; its
\* routes are wrapped by the inherited middleware, in that order, outside the
\* group's own middleware, whatever the parent is given later.
C6_GroupInherits ==
    /\ \A i \in DOMAIN routers :
          hist[i].parent # 0 =>
             LET p == hist[i].parent
             IN  /\ IsPrefix(hist[p].inherited, hist[i].inherited)
                 /\ IsPrefix(hist[i].inherited, hist[p].inherited \o hist[p].own)
    /\ \A k \in DOMAIN routes :
          routes[k].handler.wraps = ListAtRegistration(routes[k]) \o routes[k].pre

\* C6 witness: a route of a group nested in a group, registered after the group
\* used a middleware of its own, while its parent was given more after the
\* Group call.
C6_Witness ==
    \E k \in DOMAIN routes :
        LET g == routes[k].router
            p == hist[g].parent
        IN  /\ p # 0
            /\ hist[p].parent # 0
            /\ Len(hist[g].inherited) >= 2
            /\ hist[g].inherited[1] # hist[g].inherited[2]
            /\ routes[k].ownLen >= 1
            /\ Len(MwList(p)) > Len(hist[g].inherited)

\* C7: the middleware are entered in the order given, the router's before the
\* ones passed to Chain, the handler last and only if every middleware calls
\* next; the first middleware that does not call next ends the run, and its
\* return value is the result when the ones before it return what next
\* returned.  With no middleware at all the handler is registered as it is.
C7_ChainOrder ==
    /\ \A k \in DOMAIN routes :
          LET rt == routes[k]
          IN  /\ rt.handler.base = rt.base
              /\ (ListAtRegistration(rt) = <<>> /\ rt.pre = <<>>) =>
                    rt.handler = PlainHandler(rt.base)
    /\ last.op = "Dispatch" =>
          LET rt    == routes[last.route]
              order == ListAtRegistration(rt) \o rt.pre
              behs  == [j \in DOMAIN order |-> last.behs[j]]
              stops == {j \in DOMAIN order : behs[j] \in {"stopErr", "stopNil"}}
          IN  /\ Len(last.behs) = Len(order)
              /\ stops = {} => last.trace = order \o <<rt.base>>
              /\ stops # {} => last.trace = SubSeq(order, 1, Min(stops))
              /\ (stops = {} /\ \A j \in DOMAIN order : behs[j] = "pass") =>
                    last.err = last.ret
              /\ (stops # {} /\ \A j \in 1..(Min(stops) - 1) : behs[j] = "pass") =>
                    last.err = IF behs[Min(stops)] = "stopErr"
                               THEN MwErr(order[Min(stops)]) ELSE NoErr

\* C7 witness: a chain of two different router middleware and one passed to
\* Chain, where the second does not call next.
C7_Witness ==
    /\ last.op = "Dispatch"
    /\ LET rt == routes[last.route]
       IN  /\ Len(ListAtRegistration(rt)) = 2
           /\ ListAtRegistration(rt)[1] # ListAtRegistration(rt)[2]
           /\ Len(rt.pre) = 1
    /\ last.behs[1] = "pass"
    /\ last.behs[2] = "stopErr"
    /\ Len(last.trace) = 2

\* ---- the struct binder

\* mapTo returned (with or without an error) or panicked, on a pointer to a
\* struct and an input within the key ceiling.
MapToEnded ==
    /\ call.op = "returned" /\ call.fn = "mapTo"
    /\ call.in.dest.isPtr /\ ~call.in.dest.isNil /\ call.in.dest.kind = "struct"
    /\ Cardinality(DOMAIN call.in.values.named) + call.in.values.extra <= 1000

Succeeded(out) == out.err = NoErr /\ ~out.panic

\* The key the spec gives field f: its form tag when present and non-empty,
\* else its declared name.
SpecKey(f) == IF f.tag = "" THEN f.name ELSE f.tag

\* Field i of the destination is looked up: it is not skipped and the input
\* has its key.
LookedUp(i) ==
    LET f == call.in.dest.type.fields[i]
    IN  f.tag # "-" /\ SpecKey(f) \in DOMAIN call.in.values.named

\* C8: mapTo looks each field up under its form tag when that is non-empty and
\* under its declared name otherwise; it never sets a field tagged "-", whatever
\* keys the input has; a field whose key is absent keeps its previous value;
\* and when the call succeeds a string field holds the first string of the list
\* under its key.
C8_KeyResolution ==
    MapToEnded =>
        \A i \in DOMAIN call.in.dest.type.fields :
            LET f == call.in.dest.type.fields[i]
            IN  /\ f.tag = "-" => call.out.val[i] = call.in.dest.fields[i]
                /\ SpecKey(f) \notin DOMAIN call.in.values.named
                      => call.out.val[i] = call.in.dest.fields[i]
                /\ (LookedUp(i) /\ Succeeded(call.out) /\ f.type.kind = "string")
                      => call.out.val[i] = [k |-> "string", v |-> call.in.values.named[SpecKey(f)][1].s]

\* A Profile holding previous values is bound from the keys "Secret" and "name":
\* Name is set from "name" and Secret, tagged "-", keeps its value.
C8_Witness ==
    /\ MapToEnded
    /\ call.in.dest.type.name = "Profile"
    /\ DOMAIN call.in.values.named = {"Secret", "name"}
    /\ call.in.values.named["name"] = <<[s |-> <<"a", "b", "c">>, n |-> 1]>>
    /\ call.in.values.named["Secret"] = <<[s |-> <<"4", "2">>, n |-> 1]>>
    /\ call.in.dest.fields[3].v = <<"o", "l", "d">>
    /\ Succeeded(call.out)
    /\ call.out.val[1].v = <<"a", "b", "c">>
    /\ call.out.val[3].v = <<"o", "l", "d">>

\* C9: with more than 1000 distinct keys mapTo returns the too-many-fields
\* error and leaves every destination field as it was; with exactly 1000 keys
\* the key guard does not reject.
C9_TooManyKeys ==
    (call.op = "returned" /\ call.fn = "mapTo") =>
        LET n == Cardinality(DOMAIN call.in.values.named) + call.in.values.extra
        IN  /\ n > 1000 => /\ call.out.err = <<ErrTooManyFields>>
                           /\ ~call.out.panic
                           /\ call.out.val = call.in.dest.fields
            /\ n = 1000 => call.out.err # <<ErrTooManyFields>>

\* 1001 keys, one of them the key of a field that holds a previous value: the
\* call is rejected and the field is untouched.
C9_Witness ==
    /\ call.op = "returned" /\ call.fn = "mapTo"
    /\ call.in.dest.isPtr /\ call.in.dest.kind = "struct" /\ ~call.in.dest.isNil
    /\ call.in.dest.type.name = "Profile"
    /\ call.in.dest.fields[1].v = <<"o", "l", "d">>
    /\ DOMAIN call.in.values.named = {"name"}
    /\ call.in.values.named["name"] = <<[s |-> <<"a", "b", "c">>, n |-> 1]>>
    /\ call.in.values.extra = 1000
    /\ call.out.err = <<ErrTooManyFields>>
    /\ call.out.val[1].v = <<"o", "l", "d">>

\* The field's own kind, or the kind it points to.
TargetKind(t) == IF t.kind = "ptr" THEN t.elem[1].kind ELSE t.kind

\* C10 as claimed: a call that looks a field up with a list of more than 1000
\* elements does not succeed.
C10_AnyLongListRejected ==
    MapToEnded =>
        \A i \in DOMAIN call.in.dest.type.fields :
            (LookedUp(i)
             /\ ListLen(call.in.values.named[SpecKey(call.in.dest.type.fields[i])]) > 1000)
                => ~Succeeded(call.out)

\* The first field of the destination that is looked up.
FirstLookedUp(i) == LookedUp(i) /\ \A j \in 1..(i - 1) : ~LookedUp(j)

\* C10: a list of more than 1000 elements that reaches a slice field is
\* rejected with the too-many-fields error, wrapped with the field's name, and
\* the slice is left as it was, so no call succeeds after binding such a list
\* to a slice; a list of exactly 1000 elements is not rejected for its length.
C10_LongSliceListRejected ==
    MapToEnded =>
        /\ \A i \in DOMAIN call.in.dest.type.fields :
              LET f    == call.in.dest.type.fields[i]
                  list == call.in.values.named[SpecKey(f)]
              IN  (LookedUp(i) /\ TargetKind(f.type) = "slice" /\ ListLen(list) > 1000)
                     => /\ ~Succeeded(call.out)
                        /\ (FirstLookedUp(i) /\ (f.exported \/ f.type.kind = "slice"))
                              => /\ call.out.err = <<"binding field " \o f.name, ErrTooManyFields>>
                                 /\ ~call.out.panic
                                 /\ f.type.kind = "slice" => call.out.val[i] = call.in.dest.fields[i]
        /\ (\A k \in DOMAIN call.in.values.named : ListLen(call.in.values.named[k]) <= 1000)
              => \A j \in DOMAIN call.out.err : call.out.err[j] # ErrTooManyFields

\* Filter.Tags is looked up with 1001 strings.
C10_Witness ==
    /\ MapToEnded
    /\ call.in.dest.type.name = "Filter"
    /\ DOMAIN call.in.values.named = {"tags"}
    /\ ListLen(call.in.values.named["tags"]) = 1001
    /\ call.out.err = <<"binding field Tags", ErrTooManyFields>>

\* ---- the choice of binder

ShouldBindEnded == call.op = "returned" /\ call.fn = "ShouldBind"

\* What FromRequest stores in a field of type t, through the pointer when the
\* field is one.
Extracted(t, r) ==
    IF t.kind = "ptr" THEN VPtr(FromRequest(Elem(t), Zero(Elem(t)), r).val)
    ELSE FromRequest(t, Zero(t), r).val

\* Field i of the bound struct is one both passes wrote or would write: its
\* type has an extractor whose FromRequest succeeds on the request, and the
\* whole-body binder left a value in it.
BothWrite(i) ==
    /\ isRequestExtractorType(call.in.e.type.fields[i].type)
    /\ call.in.e.type.fields[i].exported
    /\ call.out.whole[i] # call.in.e.fields[i]
    /\ LET t == call.in.e.type.fields[i].type
       IN  FromRequest(IF t.kind = "ptr" THEN Elem(t) ELSE t, VNil, call.in.r).err = NoErr

\* C2: ShouldBind runs the binder chosen from the content type first and the
\* per-field pass second; a field both passes write is left with the value
\* the per-field extraction produced; an error of the whole-body binder is
\* returned without the per-field pass being run.
C2_ExtractionWins ==
    ShouldBindEnded =>
        LET r == call.in.r
            e == call.in.e
            binder == Default(r.method, r.contentType)
        IN  /\ call.out.ran[1] = binder
            /\ BindWith(binder, r, e).err # NoErr =>
                   /\ call.out.ran = <<binder>>
                   /\ call.out.err = BindWith(binder, r, e).err
            /\ (BindWith(binder, r, e).err = NoErr /\ ~BindWith(binder, r, e).panic) =>
                   /\ call.out.ran = <<binder, "GenericBinder">>
                   /\ \A i \in DOMAIN e.fields :
                         BothWrite(i) => call.out.val[i] = Extracted(e.type.fields[i].type, r)

\* The same for the fields that are extractors by value, which is where the
\* per-field pass does run to its end.
C2_ValueFieldsOnly ==
    ShouldBindEnded =>
        LET r == call.in.r
            e == call.in.e
            binder == Default(r.method, r.contentType)
        IN  /\ call.out.ran[1] = binder
            /\ BindWith(binder, r, e).err # NoErr =>
                   /\ call.out.ran = <<binder>>
                   /\ call.out.err = BindWith(binder, r, e).err
            /\ (BindWith(binder, r, e).err = NoErr /\ ~BindWith(binder, r, e).panic) =>
                   /\ call.out.ran = <<binder, "GenericBinder">>
                   /\ \A i \in DOMAIN e.fields :
                         (BothWrite(i) /\ e.type.fields[i].type.kind # "ptr" /\ ~call.out.panic)
                             => call.out.val[i] = Extracted(e.type.fields[i].type, r)

\* ----------------------------------------------------------- typed handlers
TypedServed == call.op = "returned" /\ call.fn = "serve"

\* What binding or extracting the Request value of the served request gives.
RequestBound ==
    extractFunc(call.in.mode, newRequest(call.in.h.request), call.in.r, {})

BindingFailed == TypedServed /\ ~RequestBound.panic /\ RequestBound.err # NoErr

\* C3: when binding or extraction of the request value fails in a handler
\* made by JSON(), XML(), String() or Render, the business function is not
\* called, the adapter renders nothing, the binding error is what the
\* handler returns, and the router passes that error to the error callback
\* once; binding is attempted once.
C3_BindFailureSkipsHandler ==
    BindingFailed =>
        /\ call.out.trace = <<call.in.mode>>
        /\ "h" \notin Range(call.out.trace)
        /\ "IntoResponse" \notin Range(call.out.trace)
        /\ call.out.err = RequestBound.err
        /\ call.out.errCalls = <<[cb |-> call.in.cb, err |-> RequestBound.err]>>
        /\ call.out.w = CallErrHandler(call.in.cb, NewRecorder, RequestBound.err)

C3_Witness ==
    /\ BindingFailed
    /\ call.in.mode = "bindAndHandle"
    /\ call.in.h.respond = "ok"
    /\ call.out.errCalls # <<>>

\* ---- the destination and the fields of mapTo

MapToReturned == call.op = "returned" /\ call.fn = "mapTo"

WithinCeiling == NumKeys(call.in.values) <= maxFields

\* C11: within the key ceiling, mapTo returns the pointer-required error for
\* a destination that is not a pointer (an untyped nil included) and the
\* struct-required error for a pointer that does not point to a struct (a nil
\* struct pointer included); it does not panic and sets nothing.
C11_DestinationErrors ==
    (MapToReturned /\ WithinCeiling) =>
        /\ ~call.in.dest.isPtr
              => /\ call.out.err = <<ErrPointerRequired>>
                 /\ ~call.out.panic
                 /\ call.out.val = call.in.dest.fields
        /\ (call.in.dest.isPtr /\ (call.in.dest.isNil \/ call.in.dest.kind # "struct"))
              => /\ call.out.err = <<ErrStructRequired>>
                 /\ ~call.out.panic
                 /\ call.out.val = call.in.dest.fields
        /\ (call.in.dest.isPtr /\ ~call.in.dest.isNil /\ call.in.dest.kind = "struct")
              => /\ call.out.err # <<ErrPointerRequired>>
                 /\ call.out.err # <<ErrStructRequired>>

\* A Profile passed by value with the key of its first field: rejected as not
\* a pointer, the field untouched.
C11_Witness ==
    /\ MapToReturned /\ WithinCeiling
    /\ ~call.in.dest.isPtr /\ call.in.dest.kind = "struct"
    /\ "name" \in DOMAIN call.in.values.named
    /\ call.in.values.named["name"] = Repeat(<<"a", "b", "c">>, 1)
    /\ call.out.err = <<ErrPointerRequired>>
    /\ call.out.val = call.in.dest.fields

\* mapTo returned an error from field i: the error is wrapped with the
\* declared name of that field.
FailedAt(i) ==
    /\ call.out.err # NoErr /\ ~call.out.panic
    /\ call.out.err[1] = "binding field " \o call.in.dest.type.fields[i].name

\* Field j, before the failing one, holds what setting it gave, or its
\* previous value when it was not looked up.
BoundBefore(j) ==
    LET f == call.in.dest.type.fields[j]
    IN  IF LookedUp(j)
        THEN call.out.val[j] = setTo(f.type, call.in.dest.fields[j],
                                     call.in.values.named[SpecKey(f)], f.exported).val
        ELSE call.out.val[j] = call.in.dest.fields[j]

\* C12: when setting a field fails, mapTo returns that field's error wrapped
\* with the field's declared name; the fields before it keep the values just
\* bound, and the failing field and every later field are as they were
\* before the call.
C12_FailFast ==
    (MapToEnded /\ call.out.err # NoErr /\ ~call.out.panic) =>
        \E i \in DOMAIN call.in.dest.type.fields :
            /\ FailedAt(i) /\ LookedUp(i)
            /\ \A j \in 1..(i - 1) : BoundBefore(j)
            /\ \A j \in i..Len(call.in.dest.type.fields) :
                  call.out.val[j] = call.in.dest.fields[j]

\* What the code does keep of it: the later fields are untouched and the
\* failing field is as it was, except that a nil pointer field has been
\* allocated and points to a zero value.
C12_FailFastButAllocates ==
    (MapToEnded /\ call.out.err # NoErr /\ ~call.out.panic) =>
        \E i \in DOMAIN call.in.dest.type.fields :
            /\ FailedAt(i) /\ LookedUp(i)
            /\ \A j \in 1..(i - 1) : BoundBefore(j)
            /\ \A j \in (i + 1)..Len(call.in.dest.type.fields) :
                  call.out.val[j] = call.in.dest.fields[j]
            /\ \/ call.out.val[i] = call.in.dest.fields[i]
               \/ /\ call.in.dest.type.fields[i].type.kind = "ptr"
                  /\ call.in.dest.fields[i] = VNil
                  /\ call.out.val[i] = VPtr(Zero(Elem(call.in.dest.type.fields[i].type)))

\* ---- scalar fields

\* The scalar a field of type t holds, through the pointer when it is one; a
\* nil pointer stands for the zero value.
Scalar(t, v) ==
    IF t.kind = "ptr" THEN (IF v = VNil THEN Zero(t.elem[1]) ELSE v.v) ELSE v

\* The string a scalar field is bound to: the first of the list under its key.
BoundString(i) == call.in.values.named[SpecKey(call.in.dest.type.fields[i])][1].s

\* s is a base-10 integer in the range of an integer kind: digits, after an
\* optional sign for a signed kind only, and a value the width can hold.
InRange(kind, neg, n) ==
    CASE kind = "int8" -> IF neg THEN n <= 128 ELSE n <= 127
      [] kind = "int16" -> IF neg THEN n <= 32768 ELSE n <= 32767
      [] kind = "uint8" -> n <= 255
      [] kind = "uint16" -> n <= 65535
      [] OTHER -> TRUE

ValidInteger(kind, s) ==
    LET signed == s # <<>> /\ s[1] \in {"+", "-"} /\ kind \in IntKinds
        body   == IF signed THEN Tail(s) ELSE s
    IN  /\ body # <<>>
        /\ AllDigits(body)
        /\ InRange(kind, s[1] = "-", DecimalValue(body))

IntegerOf(s) ==
    IF s[1] = "-" THEN 0 - DecimalValue(Tail(s))
    ELSE IF s[1] = "+" THEN DecimalValue(Tail(s))
    ELSE DecimalValue(s)

\* Field i is an integer field, or a pointer to one, that the call reaches
\* first, so that what the call returns is what binding this field gave.
IntegerFieldBound(i) ==
    /\ MapToEnded /\ FirstLookedUp(i)
    /\ call.in.dest.type.fields[i].exported
    /\ TargetKind(call.in.dest.type.fields[i].type) \in IntKinds \cup UintKinds

\* Binding field i to a valid integer set it to that integer; binding it to
\* anything else returned an error naming the field and left the integer it
\* held.
IntegerBinding(i) ==
    LET f == call.in.dest.type.fields[i]
    IN  IF ValidInteger(TargetKind(f.type), BoundString(i))
        THEN /\ ~FailedAt(i)
             /\ Scalar(f.type, call.out.val[i]) = VInt(IntegerOf(BoundString(i)))
        ELSE /\ FailedAt(i)
             /\ Scalar(f.type, call.out.val[i]) = Scalar(f.type, call.in.dest.fields[i])

\* C13 as claimed: binding an integer field succeeds only for a string that
\* is a valid base-10 integer in the range of the field's width; any other
\* string gives an error naming the field and no truncated or wrapped value.
C13_OnlyValidIntegers ==
    \A i \in DOMAIN call.in.dest.fields : IntegerFieldBound(i) => IntegerBinding(i)

\* C13: the same for every string but the empty one, which is not parsed.
C13_OnlyValidIntegersUnlessEmpty ==
    \A i \in DOMAIN call.in.dest.fields :
        (IntegerFieldBound(i) /\ BoundString(i) # <<>>) => IntegerBinding(i)

\* Filter.Level, an int8 holding 7, is bound to "300": out of range, the error
\* names Level and the field still holds 7.
C13_Witness ==
    /\ MapToEnded
    /\ call.in.dest.type.name = "Filter"
    /\ DOMAIN call.in.values.named = {"level"}
    /\ call.in.values.named["level"] = Repeat(<<"3", "0", "0">>, 1)
    /\ call.in.dest.fields[3] = VInt(7)
    /\ call.out.err[1] = "binding field Level"
    /\ ErrRange \in Range(call.out.err)
    /\ call.out.val[3] = VInt(7)

ScalarKinds == {"string", "bool"} \cup IntKinds \cup UintKinds \cup FloatKinds

\* Field i is a scalar field, or a pointer to a scalar, bound to the empty
\* string, and the call got as far as binding it.
EmptyBound(i) ==
    /\ MapToEnded /\ LookedUp(i)
    /\ call.in.dest.type.fields[i].exported
    /\ TargetKind(call.in.dest.type.fields[i].type) \in ScalarKinds
    /\ BoundString(i) = <<>>
    /\ (FirstLookedUp(i) \/ Succeeded(call.out))

\* C14: a scalar field, or the scalar a pointer field points to, bound to the
\* empty string holds the zero value of its type afterwards, whatever it held
\* before, and binding it returns no error.
C14_EmptyIsZero ==
    \A i \in DOMAIN call.in.dest.fields :
        EmptyBound(i) =>
            LET f == call.in.dest.type.fields[i]
            IN  /\ ~FailedAt(i)
                /\ call.out.val[i] # VNil
                /\ Scalar(f.type, call.out.val[i])
                      = Zero(IF f.type.kind = "ptr" THEN f.type.elem[1] ELSE f.type)

\* Profile.Age holds 7 and is bound to "": the call succeeds and Age is 0.
C14_Witness ==
    /\ MapToEnded
    /\ call.in.dest.type.name = "Profile"
    /\ DOMAIN call.in.values.named = {"Age"}
    /\ call.in.values.named["Age"] = Repeat(<<>>, 1)
    /\ call.in.dest.fields[2] = VInt(7)
    /\ Succeeded(call.out)
    /\ call.out.val[2] = VInt(0)

\* ---- unsupported kinds

\* The kind setValue is given for a field of type t: the field's own, the one
\* it points to, or the one of the elements of its slice.
PointedType(t) == IF t.kind = "ptr" THEN t.elem[1] ELSE t

ValueKind(t) ==
    IF PointedType(t).kind = "slice"
    THEN PointedType(PointedType(t).elem[1]).kind
    ELSE PointedType(t).kind

\* Field i has a kind the binder does not support and is the field the call
\* reaches first, with a list within the ceiling of a slice.
UnsupportedBound(i) ==
    /\ MapToEnded /\ FirstLookedUp(i)
    /\ call.in.dest.type.fields[i].exported
    /\ ValueKind(call.in.dest.type.fields[i].type) \notin ScalarKinds
    /\ ListLen(call.in.values.named[SpecKey(call.in.dest.type.fields[i])]) <= maxFields

\* The error wraps the unsupported-type error and names the kind.
UnsupportedReported(i) ==
    /\ FailedAt(i)
    /\ ErrUnsupportedType \in Range(call.out.err)
    /\ (ErrUnsupportedType \o ": " \o ValueKind(call.in.dest.type.fields[i].type))
          \in Range(call.out.err)

\* C15: a key that matches a field of an unsupported kind makes the binder
\* return an error that wraps the unsupported-type error and names the kind,
\* whatever the value bound, the empty string included.
C15_UnsupportedAlwaysRejected ==
    \A i \in DOMAIN call.in.dest.fields : UnsupportedBound(i) => UnsupportedReported(i)

\* What the code does: the error is returned when a string that reaches
\* setValue for the field is not empty; a scalar field is given the first
\* string of the list, a slice each of them.
SomeStringNonEmpty(t, list) ==
    IF PointedType(t).kind = "slice" THEN \E k \in DOMAIN list : list[k].s # <<>>
    ELSE list[1].s # <<>>

C15_UnsupportedRejectedUnlessEmpty ==
    \A i \in DOMAIN call.in.dest.fields :
        UnsupportedBound(i) =>
            IF SomeStringNonEmpty(call.in.dest.type.fields[i].type,
                                  call.in.values.named[SpecKey(call.in.dest.type.fields[i])])
            THEN UnsupportedReported(i)
            ELSE ~FailedAt(i)

\* ---- the form binder

FormBindEnded == call.op = "returned" /\ call.fn = "FormBinder.Bind"

\* The call read the multipart body of the request and it has file parts.
FilesRead ==
    /\ FormBindEnded /\ ~call.out.panic
    /\ ParseForm(call.in.r).err = NoErr
    /\ ContainsMultipart(call.in.r.contentType)
    /\ MultipartOf(call.in.r, ParseMediaType(call.in.r.contentType)) = NoErr
    /\ DOMAIN call.in.r.body.files # {}

\* Field i is a file field whose key no value of the request has, so that
\* only the file parts can set it.
FileField(i) ==
    /\ call.in.dest.type.fields[i].type \in {fileHeaderType, fileHeaderSliceType}
    /\ call.in.dest.type.fields[i].exported
    /\ SpecKey(call.in.dest.type.fields[i]) \notin DOMAIN call.in.r.query.named
    /\ SpecKey(call.in.dest.type.fields[i]) \notin DOMAIN call.in.r.body.values.named

\* Field i holds the parts under its key: the first for a pointer field, all
\* of them for a slice field; without such parts it is as it was.
Populated(i) ==
    LET f == call.in.dest.type.fields[i]
    IN  IF SpecKey(f) \in DOMAIN call.in.r.body.files
        THEN call.out.val[i] =
                 IF f.type = fileHeaderType
                 THEN [k |-> "ptr", v |-> [k |-> "struct", v |-> call.in.r.body.files[SpecKey(f)][1]]]
                 ELSE [k |-> "slice",
                       v |-> [n \in DOMAIN call.in.r.body.files[SpecKey(f)] |->
                                [s |-> [k |-> "ptr",
                                        v |-> [k |-> "struct",
                                               v |-> call.in.r.body.files[SpecKey(f)][n]]],
                                 n |-> 1]]]
        ELSE call.out.val[i] = call.in.dest.fields[i]

\* C16: a *multipart.FileHeader or []*multipart.FileHeader field is populated
\* from the file parts under its form tag, or under its declared name when
\* it has no tag, and never when its tag is "-"; a pointer field receives the
\* first part under the key and a slice field all of them.
C16_FileKeyResolution ==
    FilesRead =>
        \A i \in DOMAIN call.in.dest.fields :
            FileField(i) =>
                IF call.in.dest.type.fields[i].tag = "-"
                THEN call.out.val[i] = call.in.dest.fields[i]
                ELSE Populated(i)

\* What the code does: the tag "-" is a key like any other.
C16_FileKeysWithDash ==
    FilesRead => \A i \in DOMAIN call.in.dest.fields : FileField(i) => Populated(i)

\* The call was given a request other than GET that the dispatcher routes to
\* the form binder and whose media type, in whatever letter case, is
\* multipart/form-data, with a boundary and a well-formed multipart body.
MultipartGiven ==
    /\ FormBindEnded
    /\ call.in.r.method # MethodGet
    /\ Default(call.in.r.method, call.in.r.contentType) = "formBinder"
    /\ ParseMediaType(call.in.r.contentType).mediatype = MIMEMultipartForm
    /\ \E q \in ParseMediaType(call.in.r.contentType).params : q.key = "boundary"
    /\ call.in.r.body.kind = "multipart" /\ call.in.r.body.ok

\* The values and files of the multipart body are bound: a string field whose
\* key the body has holds the body's first value for it, and a file field
\* holds the parts under its key.
MultipartBound ==
    /\ ~call.out.panic
    /\ \A i \in DOMAIN call.in.dest.fields :
          LET f == call.in.dest.type.fields[i]
          IN  /\ (f.type.kind = "string" /\ f.tag # "-" /\ f.exported
                  /\ SpecKey(f) \in DOMAIN call.in.r.body.values.named)
                    => call.out.val[i] =
                          [k |-> "string", v |-> call.in.r.body.values.named[SpecKey(f)][1].s]
              /\ (FileField(i) /\ DOMAIN call.in.r.body.files # {}) => Populated(i)

\* C17: for a request other than GET whose media type is multipart/form-data
\* in any letter case, the form binder parses the multipart body and binds
\* its values and its files.
C17_MultipartAnyCase ==
    (MultipartGiven /\ call.out.err = NoErr) => MultipartBound

\* What the code does: the body is read when the header has
\* "multipart/form-data" written in lower case.
C17_MultipartLowerCase ==
    (MultipartGiven /\ call.out.err = NoErr /\ ContainsMultipart(call.in.r.contentType))
        => MultipartBound

\* ------------------------------------------------------------ C18
ExtractEnded == call.op = "returned" /\ call.fn = "FromRequest"

\* The request does not carry the item the extractor names: no cookie, path
\* value or header of that name, no query value, no value in the query or
\* in the body for a form extractor.
ItemAbsent ==
    CASE call.in.t.src = "cookie" -> call.in.t.key \notin DOMAIN call.in.r.cookies
      [] call.in.t.src = "path" -> call.in.t.key \notin DOMAIN call.in.r.path
      [] call.in.t.src = "header" -> call.in.t.key \notin DOMAIN call.in.r.header
      [] call.in.t.src = "query" -> call.in.t.key \notin DOMAIN call.in.r.query.named
      [] OTHER -> /\ call.in.t.key \notin DOMAIN call.in.r.query.named
                  /\ call.in.t.key \notin DOMAIN call.in.r.body.values.named

\* C18: extracting a cookie the request does not carry returns the
\* no-such-cookie error and leaves the stored value as it was; the path,
\* header, query and form extractors never return an error, and store the
\* empty string when the item they name is absent.
C18_MissingItems ==
    ExtractEnded =>
       /\ ~call.out.panic
       /\ (call.in.t.src = "cookie" /\ ItemAbsent)
             => (call.out.err = <<ErrNoCookie>> /\ call.out.val = call.in.cur)
       /\ call.in.t.src \in {"path", "header", "query", "form"}
             => /\ call.out.err = NoErr
                /\ ItemAbsent => call.out.val = Stored(call.in.t, <<>>)

\* A cookie extractor that held a value was run on a request without the
\* cookie.
C18_Witness ==
    /\ ExtractEnded /\ call.in.t.src = "cookie" /\ ItemAbsent
    /\ call.in.cur = Preset(call.in.t)
    /\ call.out.err # NoErr

\* ------------------------------------------------------------ C19
GenericEnded == call.op = "returned" /\ call.fn = "GenericBinder.Bind"

IsStructDest == ~call.in.a.isNil /\ call.in.a.kind = "struct"

\* The fields of the destination whose type, or the type it points to,
\* implements the extractor contract.
ExtractorFields ==
    {i \in DOMAIN call.in.a.type.fields : isRequestExtractorType(call.in.a.type.fields[i].type)}

\* FromRequest of field i returns an error on the request.
ExtractionFails(i) ==
    FromRequest(PointedType(call.in.a.type.fields[i].type), VNil, call.in.r).err # NoErr

\* Field i is declared after an extractor field whose extraction fails.
AfterFailure(i) == \E j \in ExtractorFields : j < i /\ ExtractionFails(j)

\* What FromRequest leaves in field i.
ExtractedInto(i) ==
    LET t == call.in.a.type.fields[i].type
        cur == call.in.a.fields[i]
    IN  IF t.kind = "ptr"
        THEN VPtr(FromRequest(Elem(t), IF cur = VNil THEN Zero(Elem(t)) ELSE cur.v, call.in.r).val)
        ELSE FromRequest(t, cur, call.in.r).val

\* The calls were made once each, in declaration order, on every extractor
\* field up to the first whose extraction fails; the error is that one's;
\* the other fields are as they were.
ExtractedInOrder ==
    /\ ~call.out.panic
    /\ {call.out.calls[n] : n \in DOMAIN call.out.calls} = {i \in ExtractorFields : ~AfterFailure(i)}
    /\ \A m, n \in DOMAIN call.out.calls : m < n => call.out.calls[m] < call.out.calls[n]
    /\ (call.out.err # NoErr) = (\E i \in ExtractorFields : ExtractionFails(i))
    /\ \A i \in DOMAIN call.in.a.type.fields :
          call.out.val[i] = IF i \in ExtractorFields /\ ~AfterFailure(i)
                            THEN ExtractedInto(i) ELSE call.in.a.fields[i]

NothingDone ==
    /\ ~call.out.panic /\ call.out.err = NoErr
    /\ call.out.calls = <<>> /\ call.out.val = call.in.a.fields

\* C19: the generic binder calls FromRequest exactly once, in declaration
\* order, on every field whose type or pointed-to type implements the
\* extractor contract (value fields, nil pointer fields, which it
\* allocates, and non-nil pointer fields alike), returns the first error
\* without extracting later fields, and returns nil without doing anything
\* when the destination is not a struct.
C19_EveryExtractorField ==
    GenericEnded => IF IsStructDest THEN ExtractedInOrder ELSE NothingDone

\* An extractor field reached by the loop holds a non-nil pointer.
NonNilPointerReached ==
    \E i \in ExtractorFields :
       /\ call.in.a.type.fields[i].type.kind = "ptr" /\ call.in.a.fields[i] # VNil
       /\ ~AfterFailure(i)

\* The same for a struct passed by pointer in which no extractor field the
\* loop reaches holds a non-nil pointer.
C19_ValueAndNilPointerFields ==
    (GenericEnded /\ (IsStructDest => call.in.a.isPtr /\ ~NonNilPointerReached))
       => IF IsStructDest THEN ExtractedInOrder ELSE NothingDone

\* With a non-nil pointer reached the call panics.
C19_NonNilPointerPanics ==
    (GenericEnded /\ IsStructDest /\ call.in.a.isPtr /\ NonNilPointerReached) => call.out.panic

\* ------------------------------------------------------------ C20
\* The business function of a String() handler ran and returned a nil error.
StringHandlerReturned ==
    /\ TypedServed /\ call.in.h.adapter = "String"
    /\ "h" \in Range(call.out.trace) /\ call.in.h.respond \in {"ok", "empty"}

\* C20: String() panics when it is called, before any request reaches the
\* handler, if and only if the Response type parameter is not exactly
\* string; when it is string there is no panic, and a request whose handler
\* returns a nil error is answered with the returned string as the body.
C20_StringOnly ==
    /\ (call.op = "returned" /\ call.fn = "adapter")
          => (call.in.adapter = "String" /\ call.in.response # "string" /\ call.out.panic)
    /\ (call.fn = "serve" /\ call.in.h.adapter = "String") => call.in.h.response = "string"
    /\ StringHandlerReturned
          => /\ ~call.out.panic /\ call.out.err = NoErr
             /\ call.out.w.status = 200
             /\ call.out.w.body = <<Reply(call.in.h)>>

\* A String() handler over string answered a request with what it returned.
C20_Witness ==
    /\ StringHandlerReturned /\ call.in.h.respond = "ok"
    /\ call.out.w.body = <<"hello">>

\* String() over a defined string type panicked.
C20_PanicWitness ==
    /\ call.op = "returned" /\ call.fn = "adapter"
    /\ call.in.response = "Name" /\ call.out.panic

\* ------------------------------------------------------------ C21
\* A JSON operation of the framework ended: a body was decoded or a response
\* encoded.
JSONOperationEnded ==
    /\ call.op = "returned"
    /\ call.fn \in {"JSONBinder.Bind", "JSONResponse.IntoResponse", "JSON"}
    /\ call.out.codec # "none"

\* C21: once SetJSONSerializer(s) was called with a non-nil s, every JSON
\* operation goes through s: the decoding of request bodies by the JSON
\* binder and the encoding of responses by JSONResponse and by JSON().
C21_EveryJSONOperation ==
    JSONOperationEnded => call.out.codec = Codec(stdJSONSerializer)

\* The decoding of request bodies goes through s.
C21_DecodingOnly ==
    (JSONOperationEnded /\ call.fn = "JSONBinder.Bind") => call.out.codec = Codec(stdJSONSerializer)

\* The encoding of responses is done by encoding/json whatever was set.
C21_EncodingIsStandard ==
    (JSONOperationEnded /\ call.fn # "JSONBinder.Bind") => call.out.codec = "encoding/json"

\* ------------------------------------------------------------ C22
\* This step is a call of SetJSONSerializer with argument s.
SetStep(s) ==
    /\ call' # call /\ call'.fn = "SetJSONSerializer" /\ call'.in.s = s

\* C22: the serializer starts as the standard one and is never nil;
\* SetJSONSerializer(nil) panics and leaves the serializer as it was;
\* SetJSONSerializer(s) leaves s, and JSONSerializer() yields what was set
\* last, no other step changing it.
C22_NeverNil ==
    /\ stdJSONSerializer = Iface(StdJSONSerializer)
    /\ [](stdJSONSerializer # NilIface)
    /\ []((call.op = "returned" /\ call.fn = "JSONSerializer") => call.out.s = stdJSONSerializer)
    /\ [][/\ SetStep(NilIface) => (call'.out.panic /\ stdJSONSerializer' = stdJSONSerializer)
          /\ \A s \in SerializerArgs \ {NilIface} :
                SetStep(s) => (~call'.out.panic /\ stdJSONSerializer' = s)
          /\ (\A s \in SerializerArgs : ~SetStep(s)) => stdJSONSerializer' = stdJSONSerializer]_vars

\* SetJSONSerializer(nil) panicked while another serializer than the
\* standard one was set.
C22_Witness ==
    /\ call.op = "returned" /\ call.fn = "SetJSONSerializer"
    /\ call.in.s = NilIface /\ call.out.panic
    /\ stdJSONSerializer = Iface(Jsoniter)

\* ------------------------------------------------------------ C23
\* Goroutine g is about to store to, or to load from, the shared reference.
Storing(g) == goroutines[g].pc \in {"store tab", "store data"}
Loading(g) == goroutines[g].pc \in {"load tab", "load data"}

\* Goroutine g has not finished and can take its next step.
CanStep(g) ==
    goroutines[g].pc \in {"test", "store tab", "store data", "load tab", "load data"}

\* C23: the shared serializer reference is safe for concurrent access: with
\* SetJSONSerializer and JSONSerializer() running at once no store to the
\* reference is concurrent with a load or with another store, and neither
\* operation blocks.
C23_Synchronized ==
    /\ \A g, h \in DOMAIN goroutines : (g # h /\ Storing(g)) => ~(Storing(h) \/ Loading(h))
    /\ \A g \in DOMAIN goroutines :
          goroutines[g].pc \notin {"done", "panicked"} => CanStep(g)

\* Neither operation blocks: this half holds, there being no lock to wait on.
C23_NeverBlocks ==
    \A g \in DOMAIN goroutines : goroutines[g].pc \notin {"done", "panicked"} => CanStep(g)

\* What a racing load can return: a value no caller ever set.
C23_NoTornRead ==
    \A g \in DOMAIN goroutines :
       (goroutines[g].fn = "JSONSerializer" /\ goroutines[g].pc = "done")
          => goroutines[g].got \in SerializerArgs

\* ------------------------------------------------------------ C24
\* The closure of an adapter ran the business function, which returned a nil
\* error.
AdapterReturned ==
    /\ call.op = "returned" /\ call.fn = "requestHandler.call"
    /\ call.in.h.adapter \in {"JSON", "XML", "String"}
    /\ call.in.h.respond # "err"

RendererReturned == call.op = "returned" /\ call.fn = "IntoResponse"

\* The calls the renderer made on the writer.
RenderLog == SubSeq(call.out.w.log, Len(call.in.w.log) + 1, Len(call.out.w.log))

\* C24: on a nil error the JSON(), XML() and String() adapters answer with
\* status 200 and Content-Type application/json, application/xml and
\* text/plain; every built-in renderer sets the Content-Type first, then
\* writes the status (its StatusCode, or 200 when that is zero), then the
\* body; no renderer is invoked when the function returned an error.
C24_RenderOrder ==
    /\ AdapterReturned
          => /\ call.out.w.status = 200
             /\ call.out.w.contentType =
                   (CASE call.in.h.adapter = "JSON" -> "application/json"
                      [] call.in.h.adapter = "XML" -> "application/xml"
                      [] OTHER -> "text/plain")
    /\ RendererReturned
          => /\ call.out.w.contentType =
                   (CASE call.in.resp = "JSONResponse" -> "application/json"
                      [] call.in.resp = "XMLResponse" -> "application/xml"
                      [] call.in.resp = "StringResponse" -> "text/plain"
                      [] OTHER -> "text/html")
             /\ call.out.w.status = (IF call.in.statusCode = 0 THEN 200 ELSE call.in.statusCode)
             /\ RenderLog = IF call.out.err = NoErr
                            THEN <<"Header.Set", "WriteHeader", "Write">>
                            ELSE <<"Header.Set", "WriteHeader">>
    /\ (call.op = "returned" /\ call.fn = "requestHandler.call" /\ call.in.h.respond = "err")
          => /\ "IntoResponse" \notin Range(call.out.trace)
             /\ call.out.w = call.in.w
             /\ call.out.err = ErrBusiness

\* A renderer with a StatusCode of its own answered a writer on which a
\* middleware had set another Content-Type.
C24_Witness ==
    /\ RendererReturned /\ call.in.statusCode = 404
    /\ call.in.w.contentType = "application/octet-stream"
    /\ call.out.w.status = 404 /\ call.out.w.contentType = "application/json"

\* An adapter answered with 200 and its content type.
C24_AdapterWitness ==
    /\ AdapterReturned /\ call.in.h.adapter = "XML"
    /\ call.out.w.status = 200 /\ call.out.w.contentType = "application/xml"

\* The routes a step registers.
Registered == {k \in DOMAIN routes' : k \notin DOMAIN routes}

\* Route k was registered before the last middleware reached its router.
UsedAfter(k) ==
    Len(hist[routes[k].router].own) > routes[k].ownLen

\* C25: the handler registered for a route is the given one wrapped by the list
\* the registering router shows when Handle is called, and the given one itself
\* when that list is empty; no later step changes a registered route, so a
\* dispatched request enters the middleware of that list and no middleware
\* Use gave the router afterwards.
C25_StackFixedAtHandle ==
    /\ [][/\ \A k \in DOMAIN routes : k \in DOMAIN routes' /\ routes'[k] = routes[k]
          /\ \A k \in Registered :
                LET rt    == routes'[k]
                    given == Chain(rt.pre, PlainHandler(rt.base))
                IN  /\ rt.handler.wraps = MwList(rt.router) \o rt.pre
                    /\ MwList(rt.router) = <<>> => rt.handler = given]_vars
    /\ [](last.op = "Dispatch" =>
            LET rt == routes[last.route]
            IN  /\ IsPrefix(last.trace, ListAtRegistration(rt) \o rt.pre \o <<rt.base>>)
                /\ Len(last.behs) = Len(ListAtRegistration(rt)) + Len(rt.pre))

\* C25 witness: a request ran through a route whose router was given another
\* middleware after the registration, every middleware passing.
C25_Witness ==
    /\ last.op = "Dispatch"
    /\ UsedAfter(last.route)
    /\ routes[last.route].ownLen = 1
    /\ hist[routes[last.route].router].own[2] # hist[routes[last.route].router].own[1]
    /\ Len(last.trace) = 2

\* A request ran through a route registered while its router's list was empty,
\* the router being given a middleware afterwards.
C25_UnwrappedWitness ==
    /\ last.op = "Dispatch"
    /\ UsedAfter(last.route)
    /\ routes[last.route].handler = PlainHandler(routes[last.route].base)
    /\ last.trace = <<routes[last.route].base>>

\* The routers a step creates.
Created == {g \in DOMAIN routers' : g \notin DOMAIN routers}

\* C26: a request answered with an error calls the callback the registering
\* router's ErrHandler field holds when the request is served, whatever it held
\* at the registration; a group starts with the callback its parent holds at the
\* Group call, and a router's callback changes only by an assignment to that
\* router's own field.
C26_ReadAtDispatch ==
    /\ [][/\ \A g \in Created :
                hist'[g].parent # 0 =>
                   routers'[g].ErrHandler = routers[hist'[g].parent].ErrHandler
          /\ \A i \in DOMAIN routers :
                routers'[i].ErrHandler # routers[i].ErrHandler =>
                   last' = [op |-> "assign", router |-> i]]_vars
    /\ [](last.op = "Dispatch" =>
            LET cb == routers[routes[last.route].router].ErrHandler
            IN  last.errCalls = IF last.err = NoErr THEN <<>>
                                ELSE <<[cb |-> cb, err |-> last.err]>>)

\* C26 witness: a route answered through a callback assigned to its router
\* after the registration.
C26_Witness ==
    /\ last.op = "Dispatch"
    /\ last.errCalls # <<>>
    /\ last.errCalls[1].cb = "custom2"
    /\ routes[last.route].errAt = "custom1"

\* A group's route answered through the callback the parent had at the Group
\* call, the parent holding another one by now.
C26_GroupWitness ==
    /\ last.op = "Dispatch"
    /\ last.errCalls # <<>>
    /\ LET g == routes[last.route].router
       IN  /\ hist[g].parent # 0
           /\ hist[hist[g].parent].cbs = <<"custom1">>
           /\ routers[hist[g].parent].ErrHandler = "custom2"
           /\ last.errCalls[1].cb = "custom1"

\* How many times step occurs in trace.
Times(trace, step) == Cardinality({i \in DOMAIN trace : trace[i] = step})

\* C27: the path of a typed handler is the one its Request type gives, for
\* every request it serves: extraction when the type or its pointer has
\* FromRequest, and then FromRequest alone runs, on the request value; binding
\* otherwise, and then the binder of the content type runs first and the
\* per-field pass after it.  Every request starts from a zero request value,
\* whatever the previous one left, and the business function is entered at
\* most once.
C27_OnePath ==
    TypedServed =>
        LET t == TypeFor(call.in.h.request)
        IN  /\ call.in.mode = IF isRequestExtractorType(t) THEN "extractAndHandle"
                              ELSE "bindAndHandle"
            /\ last.op = "request"
            /\ last.target.isPtr /\ ~last.target.isNil
            /\ \A i \in DOMAIN last.target.fields :
                  last.target.fields[i] =
                     Zero(IF IsStructType(call.in.h.request.elem)
                          THEN call.in.h.request.elem.fields[i].type
                          ELSE call.in.h.request.elem)
            /\ call.in.mode = "extractAndHandle" =>
                  /\ last.ran = <<"FromRequest">>
                  /\ last.bound = <<FromRequest(call.in.h.request.elem,
                                                Zero(call.in.h.request.elem), call.in.r).val>>
            /\ call.in.mode = "bindAndHandle" =>
                  /\ last.ran[1] = Default(call.in.r.method, call.in.r.contentType)
                  /\ Range(last.ran) \subseteq
                        {Default(call.in.r.method, call.in.r.contentType), "GenericBinder"}
            /\ Head(call.out.trace) = call.in.mode
            /\ Times(call.out.trace, "extractAndHandle")
                  + Times(call.out.trace, "bindAndHandle") = 1
            /\ Times(call.out.trace, "h") <= 1
            /\ (call.out.err = NoErr /\ ~call.out.panic) => Times(call.out.trace, "h") = 1

\* C27 witness: a handler on the extraction path served a request after a
\* request that had left a value in its request value.
C27_Witness ==
    /\ TypedServed
    /\ call.in.mode = "extractAndHandle"
    /\ call.in.h.request.isPointer
    /\ last.afterBound
    /\ last.bound = last.target.fields
    /\ Times(call.out.trace, "h") = 1

\* A handler on the binding path served a request.
C27_BindWitness ==
    /\ TypedServed
    /\ call.in.mode = "bindAndHandle"
    /\ ~call.in.h.request.isPointer
    /\ last.afterBound
    /\ last.ran = <<"queryBinder", "GenericBinder">>
    /\ last.bound = last.target.fields
    /\ Times(call.out.trace, "h") = 1

\* How many Store calls for type t the goroutines have made.
RECURSIVE StoresUpTo(_, _)
StoresUpTo(t, g) ==
    IF g = 0 THEN 0 ELSE Times(goroutines[g].stores, t) + StoresUpTo(t, g - 1)

\* C28: the entry of a type is stored at most once, whatever the interleaving
\* of the calls of IsRequestExtractorType.
C28_WriteOnce ==
    \A t \in CacheTypes : StoresUpTo(t, Len(goroutines)) <= 1

\* What does hold: a goroutine stores the entry of a type at most once.
C28_OncePerGoroutine ==
    \A g \in DOMAIN goroutines : \A t \in CacheTypes : Times(goroutines[g].stores, t) <= 1

\* t itself if it is a pointer type, otherwise pointer-to-t, has FromRequest
\* in its method set: the method set of *T holds the methods of T and of *T,
\* that of **T is empty.
PointerImplements(t) ==
    IF t.kind = "ptr" THEN Elem(t).kind # "ptr" /\ Elem(t).recv \in {"ptr", "value"}
    ELSE t.recv \in {"ptr", "value"}

\* C29: a call of IsRequestExtractorType(t) that is about to return holds what
\* the uncached check gives for t, whether it read the cache or not, and the
\* cache holds one entry per type at most, with that value.
C29_CacheAgrees ==
    /\ \A g \in DOMAIN goroutines :
          goroutines[g].pc \in {"Store", "return"} =>
             goroutines[g].got = PointerImplements(goroutines[g].s)
    /\ \A e \in implCache :
          /\ e.impl = PointerImplements(e.t)
          /\ \A f \in implCache : f.t = e.t => f = e

\* C29 witness: a goroutine got true from the entry another goroutine stored,
\* and false for another type while that entry was in the cache.
C29_Witness ==
    \E g \in DOMAIN goroutines, o \in DOMAIN goroutines :
        /\ g # o
        /\ goroutines[g].pc = "return" /\ goroutines[g].calls = 2
        /\ goroutines[g].s = Basic("string") /\ ~goroutines[g].got
        /\ goroutines[g].stores = <<Token, Basic("string")>>
        /\ goroutines[o].pc = "return" /\ goroutines[o].s = Token /\ goroutines[o].got
        /\ Token \notin Range(goroutines[o].stores)

JoinPathReturned == call.op = "returned" /\ call.fn = "joinPath"

\* p without the slashes it ends with, and without the slashes it starts with.
RECURSIVE TrimSlashesRight(_)
TrimSlashesRight(p) ==
    IF HasSuffixSlash(p) THEN TrimSlashesRight(SubSeq(p, 1, Len(p) - 1)) ELSE p

RECURSIVE TrimSlashesLeft(_)
TrimSlashesLeft(p) ==
    IF HasPrefixSlash(p) THEN TrimSlashesLeft(Tail(p)) ELSE p

\* C30: for every pair of strings joinPath(a, b) is a up to the slashes it ends
\* with, one slash, and b from after the slashes it starts with: exactly one
\* slash stands between the two segments.
C30_ExactlyOneSlash ==
    JoinPathReturned =>
        call.out = TrimSlashesRight(call.in.a) \o <<Slash>> \o TrimSlashesLeft(call.in.b)

\* What does hold: one slash at the end of a and one at the start of b are
\* dropped and one slash is put between the rest.
C30_OneSlashDropped ==
    JoinPathReturned =>
        LET a == call.in.a
            b == call.in.b
        IN  call.out = (IF HasSuffixSlash(a) THEN SubSeq(a, 1, Len(a) - 1) ELSE a)
                          \o <<Slash>> \o (IF HasPrefixSlash(b) THEN Tail(b) ELSE b)

\* What does hold: exactly one slash between the segments when a ends with one
\* slash at most and b starts with one slash at most.
C30_SingleSlashes ==
    (/\ JoinPathReturned
     /\ ~(HasSuffixSlash(call.in.a)
             /\ HasSuffixSlash(SubSeq(call.in.a, 1, Len(call.in.a) - 1)))
     /\ ~(HasPrefixSlash(call.in.b) /\ HasPrefixSlash(Tail(call.in.b))))
        => call.out = TrimSlashesRight(call.in.a) \o <<Slash>> \o TrimSlashesLeft(call.in.b)

====
